-------------------------- MODULE AdcContentProofs --------------------------
(***************************************************************************)
(* Theorems about what the engine of AdcAcquisition hands over, for every  *)
(* ring, buffer and request: which scans stand in the user's buffer, and   *)
(* which scan is found as trigger and as stop.                             *)
(***************************************************************************)
EXTENDS AdcProofs

(* The heads: that of the user's buffer is in the transfer, that of the    *)
(* ring at the scan owed next.                                             *)
Placed(d) ==
  /\ d.userHead < d.size
  /\ d.inUser <= d.sent
  /\ d.event # "TRIGGER" => d.head = (d.first + d.sent - 1) % RingScans

(* What has been handed over, waits or is in the hands of adcStart has     *)
(* been in the ring.                                                       *)
Present(d) ==
  d.event # "TRIGGER" =>
    0 <= d.first /\ d.first + d.sent + d.toMove + call.n <= scans + 1

(* The cells before userInpBufHead hold the last scans handed over.        *)
Filled(d) ==
  \A j \in 1..d.inUser :
    LET p == (d.userHead - j) % d.size
        k == d.first + d.sent - j
    IN  j <= d.size => d.buf[p] = k \/ (p < ArgScans /\ d.buf[p] = Arg)

(* With the heads where adcStart is about to move them.                    *)
Moving(d) == IF call.at = "startAdvance" THEN Advance(d, call.n) ELSE d

(* The scans of d that have been searched end before scan n + 1: there is  *)
(* no hit among them from scan s on, and eventSearchPtr is behind them.    *)
Searches(d, s, n) ==
  /\ d.search = AtLeast(s - 1, n) % RingScans
  /\ \A i \in Signal : i >= s => i > n

Searching(d) ==
  /\ d.acqActive /\ d.event = "TRIGGER" /\ d.source = "Level" =>
       Searches(d, d.pre + 1, d.current)
  /\ d.acqActive /\ d.event = "STOP" /\ d.stop = "Level" =>
       Searches(d, d.trigScan + d.post, d.current)

(* The board is no more than the latency ahead of what has been counted.   *)
Near(d)   == d.acqActive => scans <= d.current + MaxLatency
Prompt(d) == d.running => Near(d)

TriggerFirst(d) ==
  d.event # "TRIGGER" /\ hist.armed.source = "Level" /\ ~d.trigSw =>
    /\ d.trigScan \in Signal /\ d.trigScan > hist.armed.pre
    /\ \A s \in Signal : s > hist.armed.pre => s >= d.trigScan

StopFirst(d) ==
  d.event = "POSTSTOP" /\ hist.armed.stop = "Level" =>
    /\ d.stopScan \in Signal /\ d.stopScan >= d.trigScan + hist.armed.post
    /\ \A s \in Signal : s >= d.trigScan + hist.armed.post => s >= d.stopScan

Exact(d) == Searching(d) /\ Prompt(d) /\ TriggerFirst(d) /\ StopFirst(d)

Content(d) == Placed(d) /\ Present(d) /\ (~d.stale => Filled(Moving(d)))

(* The two invariants; neither needs the other.                            *)
ContentInv == DInv /\ (~hist.raced => Content(pde))
ExactInv   == DInv /\ (~hist.raced /\ Unlapped => Exact(pde))
-----------------------------------------------------------------------------
(* Remainders.                                                             *)
LEMMA ModParts ==
  ASSUME NEW a \in Int, NEW b \in Nat \ {0}
  PROVE  a % b \in 0..(b - 1) /\ a = b * (a \div b) + (a % b) /\ a \div b \in Int
OBVIOUS

LEMMA OneOfCycle ==
  ASSUME NEW k \in Int, NEW b \in Nat \ {0}, -b < k * b, k * b < b
  PROVE  k = 0
<1>1. CASE k >= 1
  <2>1. k * b = b + (k - 1) * b /\ (k - 1) * b >= 0
    BY <1>1
  <2> QED BY <2>1
<1>2. CASE k <= -1
  <2>1. k * b = (k + 1) * b - b /\ (k + 1) * b <= 0
    BY <1>2
  <2> QED BY <2>1
<1> QED BY <1>1, <1>2

LEMMA ModIs ==
  ASSUME NEW a \in Int, NEW b \in Nat \ {0}, NEW q \in Int, NEW r \in 0..(b - 1),
         a = q * b + r
  PROVE  a % b = r
<1> DEFINE k == a \div b - q
<1>1. a % b \in 0..(b - 1) /\ a = b * (a \div b) + (a % b) /\ a \div b \in Int
  BY ModParts
<1>2. k \in Int /\ k * b = r - (a % b)
  BY <1>1
<1>3. k = 0
  <2> HIDE DEF k
  <2> QED BY <1>1, <1>2, OneOfCycle
<1> QED BY <1>1, <1>2, <1>3

LEMMA ModSum ==
  ASSUME NEW a \in Int, NEW b \in Nat \ {0}, NEW c \in Int
  PROVE  ((a % b) + c) % b = (a + c) % b
<1> DEFINE x == (a % b) + c
           y == a + c
<1>1. a % b \in 0..(b - 1) /\ a = b * (a \div b) + (a % b) /\ a \div b \in Int
  BY ModParts
<1>2. x \in Int /\ y \in Int
  BY <1>1
<1>3. x % b \in 0..(b - 1) /\ x = b * (x \div b) + (x % b) /\ x \div b \in Int
  <2> HIDE DEF x
  <2> QED BY <1>2, ModParts
<1>4. y = (x \div b + a \div b) * b + (x % b) /\ x \div b + a \div b \in Int
  <2>1. y = x + b * (a \div b)
    BY <1>1
  <2> HIDE DEF x, y
  <2> QED BY <1>1, <1>2, <1>3, <2>1
<1>5. y % b = x % b
  <2> HIDE DEF x, y
  <2> QED BY <1>2, <1>3, <1>4, ModIs
<1> QED BY <1>5

(* LastIn is the one number of the last cycle up to n that lies at slot.   *)
LEMMA LastInIs ==
  ASSUME NEW n \in Int, NEW slot \in Int, NEW cycle \in Nat \ {0}, NEW i \in Int,
         i <= n, n < i + cycle, NEW q \in Int, i - 1 = slot + q * cycle
  PROVE  LastIn(n, slot, cycle) = i
<1> DEFINE r == n - i
           a == n - 1 - slot
<1>1. r \in 0..(cycle - 1) /\ a \in Int
  OBVIOUS
<1>2. a = q * cycle + r
  <2> DEFINE t == q * cycle
  <2>1. t \in Int /\ i - 1 = slot + t
    OBVIOUS
  <2> HIDE DEF t
  <2>2. a = t + r
    BY <2>1
  <2> QED BY <2>2 DEF t
<1>3. a % cycle = r
  <2> HIDE DEF a, r
  <2> QED BY <1>1, <1>2, ModIs
<1> QED BY <1>1, <1>3 DEF LastIn

(* A scan of the last RingScans stands in the ring.                        *)
LEMMA RingCellIs ==
  ASSUME scans \in Nat, NEW s \in Nat, s <= scans, scans < s + RingScans
  PROVE  RingCell((s - 1) % RingScans) = s
<1> DEFINE slot == (s - 1) % RingScans
           q == (s - 1) \div RingScans
<1>1. RingScans \in Nat \ {0} /\ s - 1 \in Int
  BY SizesAssumption
<1>2. slot \in Int /\ s - 1 = RingScans * q + slot /\ q \in Int
  <2> DEFINE a == s - 1
  <2>1. a \in Int
    BY <1>1
  <2> HIDE DEF a
  <2>2. a % RingScans \in Int /\ a = RingScans * (a \div RingScans) + (a % RingScans)
        /\ a \div RingScans \in Int
    BY <1>1, <2>1, ModParts
  <2> QED BY <2>2 DEF a
<1> HIDE DEF slot, q
<1>3. s - 1 = slot + q * RingScans
  BY <1>1, <1>2
<1>4. LastIn(scans, slot, RingScans) = s
  BY <1>1, <1>2, <1>3, LastInIs
<1> QED BY <1>4 DEF RingCell, AtLeast, Empty, slot
-----------------------------------------------------------------------------
(* What the user's buffer holds, and where the heads are.                  *)
SamePlace(d, e) ==
  /\ e.buf = d.buf /\ e.userHead = d.userHead /\ e.size = d.size
  /\ e.inUser = d.inUser /\ e.sent = d.sent /\ e.first = d.first
  /\ e.head = d.head /\ e.stale = d.stale

InPlace(d) ==
  /\ d.userHead < d.size /\ d.inUser <= d.sent
  /\ d.head = (d.first + d.sent - 1) % RingScans
  /\ ~d.stale => Filled(d)

LEMMA SamePlaceKeeps ==
  ASSUME NEW d, NEW e, SamePlace(d, e)
  PROVE  /\ InPlace(d) => InPlace(e)
         /\ Filled(d) => Filled(e)
<1>1. Filled(d) => Filled(e)
  BY DEF SamePlace, Filled
<1> QED BY <1>1 DEF SamePlace, InPlace

(* memCopyToUserBuf and the moves of the heads put the next n scans behind *)
(* those that stand in the buffer.                                         *)
LEMMA CopyFills ==
  ASSUME scans \in Nat, NEW d, IsPde(d), NEW n \in Nat,
         d.userHead < d.size, d.head = (d.first + d.sent - 1) % RingScans,
         0 <= NextWanted(d), NextWanted(d) + n <= scans + 1,
         n > 0 => scans < NextWanted(d) + RingScans, Filled(d)
  PROVE  Filled(Advance(MemCopy(d, n), n))
<1> DEFINE u == d.userHead
           size == d.size
           k0 == d.first + d.sent
           lands(p) == LastIn(n, p - u, size)
           cell(p) == IF p >= size \/ lands(p) < 1 THEN d.buf[p]
                      ELSE RingCell((d.head + lands(p) - 1) % RingScans)
           buf == [p \in Cells |-> cell(p)]
           stale == d.stale \/ (n > 0 /\ NextWanted(d) + RingScans <= scans)
           e == Advance(MemCopy(d, n), n)
<1>1. /\ u \in Nat /\ size \in Nat \ {0} /\ size <= InBufScans /\ InBufScans \in Nat
      /\ k0 \in Int /\ d.inUser \in Int /\ d.first \in Int /\ d.sent \in Int
      /\ RingScans \in Nat \ {0} /\ d.head \in Int /\ u < size
  <2>1. InBufScans \in Nat \ {0} /\ RingScans \in Nat \ {0}
    BY SizesAssumption
  <2>2. d.size \in 1..InBufScans /\ d.userHead \in 0..(InBufScans - 1)
        /\ d.head \in 0..(RingScans - 1)
    BY DEF IsPde, Cells
  <2>3. d.inUser \in Int /\ d.first \in Int /\ d.sent \in Int
    BY DEF IsPde, Counts
  <2> QED BY <2>1, <2>2, <2>3
<1>2. /\ e.buf = buf /\ e.userHead = (u + n) % size /\ e.size = size
      /\ e.inUser = d.inUser + n /\ e.sent = d.sent + n /\ e.first = d.first
  <2>1. MemCopy(d, n) = [d EXCEPT !.buf = buf, !.stale = stale]
    BY DEF MemCopy
  <2> HIDE DEF buf, stale
  <2>2. LET c == [d EXCEPT !.buf = buf, !.stale = stale]
        IN  /\ c.buf = buf /\ c.userHead = u /\ c.size = size
            /\ c.inUser = d.inUser /\ c.sent = d.sent /\ c.first = d.first
            /\ DOMAIN c = Flags \cup Counts \cup Others
    BY SMTT(30) DEF IsPde, Flags, Counts, Others
  <2> DEFINE c == MemCopy(d, n)
             hd == (c.head + n) % RingScans
             uh == (c.userHead + n) % c.size
  <2>3. e = [c EXCEPT !.head = hd, !.userHead = uh, !.inUser = c.inUser + n, !.sent = c.sent + n]
    BY DEF Advance
  <2>4. /\ c.buf = buf /\ c.userHead = u /\ c.size = size
        /\ c.inUser = d.inUser /\ c.sent = d.sent /\ c.first = d.first
        /\ DOMAIN c = Flags \cup Counts \cup Others
    BY <2>1, <2>2
  <2> HIDE DEF c, hd, e
  <2>5. /\ e.buf = c.buf /\ e.userHead = uh /\ e.size = c.size
        /\ e.inUser = c.inUser + n /\ e.sent = c.sent + n /\ e.first = c.first
    <3> HIDE DEF uh
    <3> QED BY <2>3, <2>4, SMTT(30) DEF Flags, Counts, Others
  <2> QED BY <2>4, <2>5
<1>0. ASSUME NEW h \in 1..d.inUser, h <= size
      PROVE  \/ d.buf[(u - h) % size] = k0 - h
             \/ (u - h) % size < ArgScans /\ d.buf[(u - h) % size] = Arg
  <2>1. d.first + d.sent - h = k0 - h
    BY <1>1
  <2> HIDE DEF k0, lands, cell, buf, stale, e
  <2> QED BY <1>0, <2>1, Zenon DEF Filled
<1> HIDE DEF e, u, size
<1>3. ASSUME NEW j \in 1..(d.inUser + n), j <= size
      PROVE  LET p == (((u + n) % size) - j) % size
                 k == k0 + n - j
             IN  buf[p] = k \/ (p < ArgScans /\ buf[p] = Arg)
  <2> DEFINE p == (((u + n) % size) - j) % size
             t == u + n - j
             q == t \div size
             i == n - j + 1
             k == k0 + n - j
  <2>1. p = t % size
    <3> DEFINE a == u + n
               c == 0 - j
    <3>1. a \in Int /\ c \in Int
      BY <1>1
    <3> HIDE DEF a, c
    <3>2. ((a % size) + c) % size = (a + c) % size
      BY <1>1, <3>1, ModSum
    <3>3. a % size \in Int
      BY <1>1, <3>1, ModParts
    <3>4. (a % size) + c = (a % size) - j /\ a + c = t
      BY <1>1, <3>1, <3>3 DEF a, c
    <3> QED BY <3>2, <3>4 DEF a
  <2>2. t \in Int /\ i \in Int /\ j \in Nat /\ j >= 1
    BY <1>1
  <2>3. p \in 0..(size - 1) /\ t = size * q + p /\ q \in Int
    <3> HIDE DEF t
    <3>1. t % size \in 0..(size - 1) /\ t = size * (t \div size) + (t % size)
          /\ t \div size \in Int
      BY <1>1, <2>2, ModParts
    <3> QED BY <2>1, <3>1
  <2> HIDE DEF p, q
  <2>4. p \in Cells /\ p < size /\ p \in Int
    BY <1>1, <2>3 DEF Cells
  <2>5. lands(p) = i
    <3> DEFINE slot == p - u
    <3>1. slot \in Int /\ i <= n /\ n < i + size /\ n \in Int
      BY <1>1, <1>3, <2>2, <2>3
    <3>2. i - 1 = slot + q * size
      <4> DEFINE w == q * size
      <4>1. w \in Int /\ size * q = w
        BY <1>1, <2>3
      <4> HIDE DEF w
      <4>2. t = w + p
        BY <2>3, <4>1
      <4>3. i - 1 = slot + w
        BY <1>1, <2>3, <4>1, <4>2
      <4> QED BY <4>3 DEF w
    <3> HIDE DEF slot, i
    <3>3. size \in Nat \ {0} /\ i \in Int /\ q \in Int
      BY <1>1, <2>2, <2>3
    <3>4. LastIn(n, slot, size) = i
      BY <3>1, <3>2, <3>3, LastInIs, Zenon
    <3> QED BY <3>4 DEF slot
  <2>6. buf[p] = cell(p)
    BY <2>4 DEF size
  <2> HIDE DEF lands
  <2>7. CASE j <= n
    <3>1. i >= 1
      BY <1>1, <2>2, <2>7
    <3>2. buf[p] = RingCell((d.head + i - 1) % RingScans)
      BY <1>1, <2>2, <2>4, <2>5, <2>6, <3>1
    <3>3. (d.head + i - 1) % RingScans = (k - 1) % RingScans
      <4> DEFINE a == d.first + d.sent - 1
                 c == i - 1
      <4>1. a \in Int /\ c \in Int /\ d.head = a % RingScans
        BY <1>1, <2>2
      <4> HIDE DEF a, c
      <4>2. ((a % RingScans) + c) % RingScans = (a + c) % RingScans
        BY <1>1, <4>1, ModSum
      <4>3. d.head + i - 1 = d.head + c /\ a + c = k - 1
        BY <1>1, <2>2, <4>1 DEF a, c
      <4> QED BY <4>1, <4>2, <4>3
    <3>4. k \in Nat /\ k <= scans /\ scans < k + RingScans
      BY <1>1, <2>2, <2>7, <3>1 DEF NextWanted
    <3> HIDE DEF k, buf
    <3>5. RingCell((k - 1) % RingScans) = k
      BY <3>4, RingCellIs
    <3> QED BY <3>2, <3>3, <3>5 DEF k, p
  <2>8. CASE j > n
    <3> DEFINE h == j - n
    <3>1. buf[p] = d.buf[p]
      BY <1>1, <2>2, <2>4, <2>5, <2>6, <2>8
    <3>2. h \in 1..d.inUser /\ h <= size /\ t = u - h /\ k = k0 - h
      BY <1>1, <1>3, <2>2, <2>8
    <3>3. p = (u - h) % size
      BY <2>1, <3>2 DEF p
    <3>4. \/ d.buf[(u - h) % size] = k0 - h
          \/ (u - h) % size < ArgScans /\ d.buf[(u - h) % size] = Arg
      BY <1>0, <3>2
    <3> HIDE DEF k, k0, h, buf
    <3>5. d.buf[p] = k \/ (p < ArgScans /\ d.buf[p] = Arg)
      BY <3>2, <3>3, <3>4, Zenon
    <3> QED BY <3>1, <3>5, Zenon DEF p, k
  <2> QED BY <1>1, <2>2, <2>7, <2>8
<1> HIDE DEF buf
<1>4. \A j \in 1..(d.inUser + n) : j <= size =>
        LET p == (((u + n) % size) - j) % size
            k == k0 + n - j
        IN  buf[p] = k \/ (p < ArgScans /\ buf[p] = Arg)
  BY <1>3
<1>5. ASSUME NEW j \in 1..e.inUser, j <= e.size
      PROVE  LET p == (e.userHead - j) % e.size
                 k == e.first + e.sent - j
             IN  e.buf[p] = k \/ (p < ArgScans /\ e.buf[p] = Arg)
  <2>1. e.first + e.sent - j = k0 + n - j
    BY <1>1, <1>2
  <2> QED BY <1>2, <1>4, <1>5, <2>1
<1> QED BY <1>5 DEF Filled, e

(* The next n scans owed have been in the ring.                            *)
Owes(d, n) == 0 <= NextWanted(d) /\ NextWanted(d) + n <= scans + 1

LEMMA AdvancePlaces ==
  ASSUME NEW c, IsPde(c), NEW n \in Nat, c.userHead < c.size, c.inUser <= c.sent,
         c.head = (c.first + c.sent - 1) % RingScans
  PROVE  LET e == Advance(c, n)
         IN  /\ e.userHead < e.size /\ e.inUser <= e.sent
             /\ e.head = (e.first + e.sent - 1) % RingScans
             /\ e.stale = c.stale /\ e.search = c.search
<1> DEFINE e == Advance(c, n)
           hd == (c.head + n) % RingScans
           uh == (c.userHead + n) % c.size
<1>1. /\ e.head = hd /\ e.userHead = uh /\ e.search = c.search /\ e.size = c.size
      /\ e.inUser = c.inUser + n /\ e.sent = c.sent + n /\ e.first = c.first
      /\ e.stale = c.stale
  <2>1. e = [c EXCEPT !.head = hd, !.userHead = uh, !.inUser = c.inUser + n, !.sent = c.sent + n]
    BY DEF Advance
  <2> HIDE DEF hd, uh, e
  <2> QED BY <2>1, SMTT(30) DEF IsPde, Flags, Counts, Others
<1> HIDE DEF e
<1>2. /\ c.userHead \in Int /\ c.size \in Nat \ {0} /\ RingScans \in Nat \ {0}
      /\ c.first \in Int /\ c.sent \in Int /\ c.inUser \in Int
  <2>1. InBufScans \in Nat \ {0} /\ RingScans \in Nat \ {0}
    BY SizesAssumption
  <2>2. c.size \in 1..InBufScans /\ c.userHead \in 0..(InBufScans - 1)
    BY DEF IsPde, Cells
  <2>3. c.inUser \in Int /\ c.first \in Int /\ c.sent \in Int
    BY DEF IsPde, Counts
  <2> QED BY <2>1, <2>2, <2>3
<1>3. e.userHead < e.size
  <2> DEFINE a == c.userHead + n
  <2>1. a \in Int /\ uh = a % c.size
    BY <1>2
  <2> HIDE DEF a, uh
  <2>2. a % c.size \in 0..(c.size - 1)
    BY <1>2, <2>1, ModParts
  <2> QED BY <1>1, <1>2, <2>1, <2>2
<1>4. e.head = (e.first + e.sent - 1) % RingScans
  <2> DEFINE a == c.first + c.sent - 1
  <2>1. a \in Int /\ c.head = a % RingScans /\ hd = (c.head + n) % RingScans
    BY <1>2
  <2>2. e.first + e.sent - 1 = a + n
    <3>1. e.first = c.first /\ e.sent = c.sent + n
      BY <1>1
    <3>2. c.first \in Int /\ c.sent \in Int /\ n \in Int
      BY <1>2
    <3> HIDE DEF e
    <3> QED BY <3>1, <3>2
  <2> HIDE DEF a, hd
  <2>3. n \in Int /\ RingScans \in Nat \ {0}
    BY <1>2
  <2>4. ((a % RingScans) + n) % RingScans = (a + n) % RingScans
    BY <2>1, <2>3, ModSum
  <2>5. e.head = hd
    BY <1>1
  <2> QED BY <2>1, <2>2, <2>4, <2>5, Zenon
<1>5. e.inUser <= e.sent
  BY <1>1, <1>2
<1> QED BY <1>1, <1>3, <1>4, <1>5 DEF e

LEMMA MemCopyPlace ==
  ASSUME scans \in Nat, NEW d, IsPde(d), NEW n \in Int
  PROVE  LET c == MemCopy(d, n)
         IN  /\ IsPde(c) /\ SameTransfer(d, c)
             /\ c.head = d.head /\ c.userHead = d.userHead /\ c.search = d.search
             /\ c.stale = (d.stale \/ (n > 0 /\ NextWanted(d) + RingScans <= scans))
<1> DEFINE c == MemCopy(d, n)
           buf == [p \in Cells |->
                    IF p >= d.size \/ LastIn(n, p - d.userHead, d.size) < 1 THEN d.buf[p]
                    ELSE RingCell((d.head + LastIn(n, p - d.userHead, d.size) - 1) % RingScans)]
           stale == d.stale \/ (n > 0 /\ NextWanted(d) + RingScans <= scans)
<1>1. IsPde(c) /\ SameTransfer(d, c) /\ c.stale = stale
  BY MemCopyType, MemCopyFields
<1>2. c.head = d.head /\ c.userHead = d.userHead /\ c.search = d.search
  <2>1. c = [d EXCEPT !.buf = buf, !.stale = stale]
    BY DEF MemCopy
  <2> HIDE DEF c, buf, stale
  <2> QED BY <2>1, SMTT(30) DEF IsPde, Flags, Counts, Others
<1> QED BY <1>1, <1>2

LEMMA MovePlaces ==
  ASSUME scans \in Nat, NEW d, IsPde(d), NEW n \in Nat, InPlace(d), Owes(d, n)
  PROVE  LET e == Advance(MemCopy(d, n), n)
         IN  InPlace(e) /\ e.search = d.search
<1> DEFINE c == MemCopy(d, n)
           e == Advance(c, n)
           stale == d.stale \/ (n > 0 /\ NextWanted(d) + RingScans <= scans)
<1>1. /\ IsPde(c) /\ SameTransfer(d, c) /\ c.stale = stale
      /\ c.head = d.head /\ c.userHead = d.userHead /\ c.search = d.search
  BY MemCopyPlace
<1>2. /\ d.userHead < d.size /\ d.inUser <= d.sent
      /\ d.head = (d.first + d.sent - 1) % RingScans
  BY DEF InPlace
<1>3. /\ e.userHead < e.size /\ e.inUser <= e.sent
      /\ e.head = (e.first + e.sent - 1) % RingScans
      /\ e.stale = c.stale /\ e.search = c.search
  <2>1. /\ c.userHead < c.size /\ c.inUser <= c.sent
        /\ c.head = (c.first + c.sent - 1) % RingScans
    BY <1>1, <1>2 DEF SameTransfer
  <2> HIDE DEF c
  <2> QED BY <1>1, <2>1, AdvancePlaces
<1> HIDE DEF stale
<1>4. e.stale \/ Filled(e)
  <2>1. 0 <= NextWanted(d) /\ NextWanted(d) + n <= scans + 1
    BY DEF Owes
  <2>2. NextWanted(d) \in Int /\ RingScans \in Int
    BY SizesAssumption DEF NextWanted, IsPde, Counts
  <2>3. CASE ~stale
    <3>1. Filled(d) /\ (n > 0 => scans < NextWanted(d) + RingScans)
      BY <2>2, <2>3 DEF InPlace, stale
    <3> HIDE DEF e, c
    <3> QED BY <1>2, <2>1, <3>1, CopyFills DEF e, c
  <2> QED BY <1>1, <1>3, <2>3
<1> HIDE DEF c, e
<1>5. InPlace(e) /\ e.search = d.search
  BY <1>1, <1>3, <1>4 DEF InPlace
<1> QED BY <1>5 DEF e, c

LEMMA StopPlace ==
  ASSUME NEW d, IsPde(d)
  PROVE  SamePlace(d, AdcStop(d)) /\ AdcStop(d).search = d.search
BY SMTT(30) DEF AdcStop, SamePlace, IsPde, Flags, Counts, Others

LEMMA DisarmAcquisitionPlace ==
  ASSUME NEW d, IsPde(d)
  PROVE  SamePlace(d, AdcDisarmAcquisition(d)) /\ AdcDisarmAcquisition(d).search = d.search
BY SMTT(30) DEF AdcDisarmAcquisition, SamePlace, IsPde, Flags, Counts, Others

LEMMA DisarmPlace ==
  ASSUME NEW d, IsPde(d)
  PROVE  SamePlace(d, AdcDisarm(d)) /\ AdcDisarm(d).search = d.search
<1> DEFINE g == AdcDisarmAcquisition(d)
<1>1. IsPde(g) /\ SamePlace(d, g) /\ g.search = d.search
  BY DisarmAcquisitionType, DisarmAcquisitionPlace
<1>2. AdcDisarm(d) = [g EXCEPT !.dropped = g.dropped + d.toMove, !.toMove = 0]
  BY DEF AdcDisarm
<1> HIDE DEF g
<1> QED BY <1>1, <1>2, SMTT(30) DEF SamePlace, IsPde, Flags, Counts, Others

LEMMA ComputePlace ==
  ASSUME NEW d, IsPde(d), NEW lag \in Nat, scans \in Nat
  PROVE  LET e == ComputeScansAcquired(d, lag)
         IN  SamePlace(d, e) /\ e.search = d.search
<1> DEFINE waiting == d.event = "TRIGGER" /\ d.source = "Hardware" /\ ~d.trigHw
           read == AtLeast(d.read, scans - lag)
           hw == d.trigHw \/ waiting
           r == ReadAcqScanCounter(d, lag)
           e == ComputeScansAcquired(d, lag)
<1>1. CASE d.event = "POSTSTOP"
  <2>1. e = [d EXCEPT !.last = d.current, !.current = d.stopScan]
    BY <1>1 DEF ComputeScansAcquired
  <2> HIDE DEF e
  <2> QED BY <2>1, SMTT(30) DEF SamePlace, IsPde, Flags, Counts, Others, e
<1>2. CASE d.event # "POSTSTOP"
  <2>1. r = IF waiting /\ d.pacer # "on" THEN d ELSE [d EXCEPT !.read = read, !.trigHw = hw]
    BY DEF ReadAcqScanCounter
  <2>2. e = [r EXCEPT !.last = d.current, !.current = r.read]
    BY <1>2 DEF ComputeScansAcquired
  <2>3. IsPde(r)
    BY ReadType
  <2> HIDE DEF waiting, read, hw, r, e
  <2>4. SamePlace(d, r) /\ r.search = d.search
    BY <2>1, SMTT(30) DEF SamePlace, IsPde, Flags, Counts, Others
  <2>5. SamePlace(r, e) /\ e.search = r.search
    BY <2>2, <2>3, SMTT(30) DEF SamePlace, IsPde, Flags, Counts, Others
  <2> QED BY <2>4, <2>5 DEF SamePlace, e
<1> QED BY <1>1, <1>2

(* copyNewScans leaves the buffer filled behind its head.                  *)
LEMMA CopyNewScansPlaces ==
  ASSUME scans \in Nat, NEW d, IsPde(d), NEW n \in Nat,
         ~d.cyclic => d.inUser <= d.size, d.transferActive => d.userOpen,
         InPlace(d), d.transferActive => Owes(d, Room(d, n))
  PROVE  LET e == CopyNewScans(d, n)
         IN  InPlace(e) /\ e.search = d.search
<1> DEFINE m == Room(d, n)
           kept == IF Fills(d, n) THEN [d EXCEPT !.toMove = n - m] ELSE d
           done == Advance(MemCopy(kept, m), m)
           e == CopyNewScans(d, n)
<1>1. m \in Nat
  BY DEF Room, Fills, IsPde, Counts
<1>2. CASE n = 0
  <2>1. e = d
    BY <1>1, <1>2 DEF CopyNewScans, OutOfBounds
  <2> QED BY <2>1
<1>3. CASE n # 0 /\ ~d.transferActive
  <2>1. e = [d EXCEPT !.toMove = d.toMove + n]
    BY <1>3 DEF CopyNewScans
  <2> HIDE DEF e
  <2>2. SamePlace(d, e) /\ e.search = d.search
    BY <2>1, SMTT(30) DEF SamePlace, IsPde, Flags, Counts, Others
  <2> QED BY <2>2, SamePlaceKeeps DEF e
<1>4. CASE n # 0 /\ d.transferActive
  <2>1. e = IF Fills(d, n) THEN AdcStop(done) ELSE done
    BY <1>1, <1>4 DEF CopyNewScans, OutOfBounds
  <2> HIDE DEF m, e
  <2>2. n - m \in Int
    BY <1>1
  <2>3. IsPde(kept) /\ SamePlace(d, kept) /\ kept.search = d.search
    BY <2>2, SMTT(30) DEF SamePlace, IsPde, Flags, Counts, Others
  <2> HIDE DEF kept
  <2>4. InPlace(kept)
    BY <2>3, SamePlaceKeeps
  <2>5. Owes(kept, m)
    BY <1>4, <2>3 DEF Owes, NextWanted, SamePlace, m
  <2>6. InPlace(done) /\ done.search = kept.search
    BY <1>1, <2>3, <2>4, <2>5, MovePlaces
  <2>7. IsPde(done)
    BY <1>1, <2>3, MemCopyType, AdvanceType
  <2> HIDE DEF done
  <2>8. InPlace(AdcStop(done)) /\ AdcStop(done).search = done.search
    BY <2>6, <2>7, StopPlace, SamePlaceKeeps
  <2> QED BY <2>1, <2>3, <2>6, <2>8 DEF e
<1> QED BY <1>2, <1>3, <1>4
-----------------------------------------------------------------------------
(* What the search of the ring for a level finds.                          *)
OffsetFrom(search, n) ==
  LET hit(i) == RingCell((search + i) % RingScans) \in Signal
  IN  CHOOSE i \in 0..n : (i = n \/ hit(i)) /\ \A j \in 0..(i - 1) : ~hit(j)

LEMMA OffsetBySearch ==
  ASSUME NEW d, NEW n
  PROVE  LevelOffset(d, n) = OffsetFrom(d.search, n)
BY DEF LevelOffset, OffsetFrom

LEMMA LevelOffsetIs ==
  ASSUME NEW d, NEW n \in Nat
  PROVE  LET o == LevelOffset(d, n)
             hit(i) == RingCell((d.search + i) % RingScans) \in Signal
         IN  o \in 0..n /\ (o = n \/ hit(o)) /\ \A j \in 0..(o - 1) : ~hit(j)
<1> DEFINE hit(i) == RingCell((d.search + i) % RingScans) \in Signal
           T == {i \in 0..n : i = n \/ hit(i)}
<1> HIDE DEF hit
<1>1. n \in T /\ T \in SUBSET Nat
  OBVIOUS
<1>2. PICK x \in T : \A y \in T : x <= y
  BY <1>1, LeastNatural
<1>3. \A j \in 0..(x - 1) : ~hit(j)
  BY <1>2
<1>4. \E i \in 0..n : (i = n \/ hit(i)) /\ \A j \in 0..(i - 1) : ~hit(j)
  BY <1>2, <1>3
<1>5. LevelOffset(d, n) = CHOOSE i \in 0..n : (i = n \/ hit(i)) /\ \A j \in 0..(i - 1) : ~hit(j)
  BY DEF LevelOffset, hit
<1> DEFINE o == LevelOffset(d, n)
<1>6. o \in 0..n /\ (o = n \/ hit(o)) /\ \A j \in 0..(o - 1) : ~hit(j)
  BY <1>4, <1>5
<1> HIDE DEF o
<1> QED BY <1>6 DEF hit, o

(* With eventSearchPtr behind scan s and n more scans in the ring.         *)
LEMMA LevelFound ==
  ASSUME scans \in Nat, NEW d, NEW n \in Nat, NEW s \in Nat,
         d.search = s % RingScans, s + n <= scans, scans <= s + RingScans
  PROVE  LET o == LevelOffset(d, n)
         IN  /\ o \in 0..n
             /\ \A i \in Signal : ~(s < i /\ i <= s + o)
             /\ o < n => s + o + 1 \in Signal
             /\ (d.search + o) % RingScans = (s + o) % RingScans
<1> DEFINE o == LevelOffset(d, n)
           cell(i) == RingCell((d.search + i) % RingScans)
<1>1. o \in 0..n /\ (o = n \/ cell(o) \in Signal) /\ \A j \in 0..(o - 1) : cell(j) \notin Signal
  BY LevelOffsetIs
<1>2. RingScans \in Nat \ {0} /\ Signal \subseteq Nat
  BY SizesAssumption, RequestsAssumption
<1>3. ASSUME NEW i \in Int
      PROVE  (d.search + i) % RingScans = (s + i) % RingScans
  BY <1>2, ModSum
<1>4. ASSUME NEW i \in 0..(n - 1)
      PROVE  cell(i) = s + i + 1
  <2> DEFINE k == s + i + 1
  <2>1. k \in Nat /\ k <= scans /\ scans < k + RingScans /\ k - 1 = s + i /\ i \in Int
    BY <1>2
  <2>2. cell(i) = RingCell((k - 1) % RingScans)
    BY <1>3, <2>1
  <2> HIDE DEF k, cell
  <2> QED BY <2>1, <2>2, RingCellIs DEF k
<1> HIDE DEF o, cell
<1>5. \A i \in Signal : ~(s < i /\ i <= s + o)
  <2> SUFFICES ASSUME NEW i \in Signal, s < i, i <= s + o PROVE FALSE
    OBVIOUS
  <2> DEFINE j == i - s - 1
  <2>1. j \in 0..(o - 1) /\ j \in 0..(n - 1) /\ s + j + 1 = i
    BY <1>1, <1>2
  <2> HIDE DEF j
  <2> QED BY <1>1, <1>4, <2>1
<1>6. o < n => s + o + 1 \in Signal
  BY <1>1, <1>4
<1>7. (d.search + o) % RingScans = (s + o) % RingScans
  BY <1>1, <1>3
<1> QED BY <1>1, <1>5, <1>6, <1>7 DEF o

(* A search from scan s on, that has found nothing up to scan from, goes   *)
(* on up to scan to.                                                       *)
LEMMA SearchGoesOn ==
  ASSUME scans \in Nat, NEW d, NEW s \in Nat \ {0}, NEW from \in Nat, NEW to \in Nat,
         Searches(d, s, from), NEW w, w = AtLeast(s - 1, from),
         w <= to, to <= scans, scans <= w + RingScans
  PROVE  LET n == to - w
             o == LevelOffset(d, n)
         IN  /\ n \in Nat /\ o \in 0..n
             /\ ~(o < n) => /\ (d.search + o) % RingScans = AtLeast(s - 1, to) % RingScans
                            /\ \A i \in Signal : i >= s => i > to
             /\ o < n => /\ w + o + 1 \in Signal /\ w + o + 1 >= s
                         /\ \A i \in Signal : i >= s => i >= w + o + 1
<1> DEFINE n == to - w
           o == LevelOffset(d, n)
<1>1. /\ w \in Nat /\ n \in Nat /\ w + n = to /\ w >= s - 1 /\ w >= from
      /\ w = from \/ (w = s - 1 /\ AtLeast(s - 1, to) = to)
  BY DEF AtLeast
<1>2. d.search = w % RingScans /\ \A i \in Signal : i >= s => i > w
  <2>1. Signal \subseteq Nat
    BY RequestsAssumption
  <2> QED BY <1>1, <2>1 DEF Searches
<1> HIDE DEF n
<1>3. /\ o \in 0..n
      /\ \A i \in Signal : ~(w < i /\ i <= w + o)
      /\ o < n => w + o + 1 \in Signal
      /\ (d.search + o) % RingScans = (w + o) % RingScans
  BY <1>1, <1>2, LevelFound
<1> HIDE DEF o
<1>4. Signal \subseteq Nat
  BY RequestsAssumption
<1>5. AtLeast(s - 1, to) = to
  BY <1>1 DEF AtLeast
<1>6. CASE o < n
  BY <1>1, <1>2, <1>3, <1>4, <1>6 DEF n, o
<1>7. CASE ~(o < n)
  <2>1. o = n /\ w + o = to
    BY <1>1, <1>3, <1>7
  <2> QED BY <1>1, <1>2, <1>3, <1>4, <1>5, <1>7, <2>1 DEF n, o
<1> QED BY <1>6, <1>7
-----------------------------------------------------------------------------
(* checkForEvent moves no scan; where it searches for a level, it moves    *)
(* eventSearchPtr behind what it has searched.                             *)
LEMMA CheckForStopSearch ==
  ASSUME NEW d, IsPde(d), NEW acquired \in Nat
  PROVE  LET c == CheckForStop(d, acquired)
             n == acquired - d.stopCount
             o == LevelOffset(d, n)
             looks == acquired >= d.stopCount /\ d.stop = "Level"
         IN  /\ SamePlace(d, c.d)
             /\ c.d.search = IF looks THEN (d.search + o) % RingScans ELSE d.search
             /\ d.stop = "Level" => (c.occurred <=> looks /\ o < n)
             /\ looks /\ o < n => c.d.stopScan = d.current - n + o + 1
<1> DEFINE c == CheckForStop(d, acquired)
           n == acquired - d.stopCount
           o == LevelOffset(d, n)
           z == [d EXCEPT !.stopCount = 0]
           hit == o < n
           at == d.current - n + o + 1
           q == (d.search + o) % RingScans
<1>1. CASE acquired < d.stopCount
  <2>1. c = [occurred |-> FALSE, d |-> [d EXCEPT !.stopCount = d.stopCount - acquired]]
    BY <1>1 DEF CheckForStop
  <2>2. LET e == [d EXCEPT !.stopCount = d.stopCount - acquired]
        IN  SamePlace(d, e) /\ e.search = d.search
    BY SMTT(30) DEF SamePlace, IsPde, Flags, Counts, Others
  <2>3. ~(acquired >= d.stopCount)
    BY <1>1 DEF IsPde, Counts
  <2> HIDE DEF c
  <2>4. c.occurred = FALSE /\ SamePlace(d, c.d) /\ c.d.search = d.search
    BY <2>1, <2>2
  <2> QED BY <2>3, <2>4 DEF c
<1>2. CASE acquired >= d.stopCount
  <2>0. ~(acquired < d.stopCount)
    BY <1>2 DEF IsPde, Counts
  <2>1. IsPde(z) /\ SamePlace(d, z) /\ z.search = d.search
    BY SMTT(30) DEF SamePlace, IsPde, Flags, Counts, Others
  <2>2. LevelOffset(z, n) = o
    <3> HIDE DEF z
    <3> QED BY <2>1, OffsetBySearch
  <2>3. CASE d.stop = "Level"
    <3> DEFINE g == [z EXCEPT !.search = q]
               s == IF hit THEN at ELSE g.stopScan
               e == [g EXCEPT !.stopScan = s]
    <3>1. c = [occurred |-> hit, d |-> e]
      BY <2>0, <2>1, <2>2, <2>3 DEF CheckForStop, Searched
    <3> HIDE DEF z, q, at, hit, c
    <3>2. SamePlace(d, g) /\ g.search = q /\ DOMAIN g = Flags \cup Counts \cup Others
      BY <2>1, SMTT(30) DEF SamePlace, IsPde, Flags, Counts, Others
    <3> HIDE DEF g, s
    <3>3. SamePlace(d, e) /\ e.search = q /\ e.stopScan = s
      BY <3>2, SMTT(30) DEF SamePlace, Flags, Counts, Others
    <3> HIDE DEF e
    <3>4. (c.occurred <=> hit) /\ c.d = e
      BY <3>1
    <3>5. hit => e.stopScan = at
      BY <3>3 DEF s
    <3> QED BY <1>2, <2>3, <3>3, <3>4, <3>5 DEF c, q, at, hit
  <2>4. CASE d.stop # "Level"
    <3>1. \/ c.d = z
          \/ c.d = [z EXCEPT !.stopScan = d.current - n]
      BY <2>0, <2>4 DEF CheckForStop
    <3> HIDE DEF z, c, n
    <3>2. SamePlace(d, c.d) /\ c.d.search = d.search
      BY <2>1, <3>1, SMTT(30) DEF SamePlace, IsPde, Flags, Counts, Others
    <3> QED BY <2>4, <3>2 DEF c
  <2> QED BY <2>3, <2>4
<1> QED BY <1>1, <1>2 DEF IsPde, Counts

LEMMA CheckForTriggerSearch ==
  ASSUME NEW d, IsPde(d), NEW acquired \in Nat
  PROVE  LET c == CheckForTrigger(d, acquired)
             n == acquired - d.trigCount
             o == LevelOffset(d, n)
             looks == acquired > d.trigCount /\ ~d.trigSw /\ d.source = "Level"
         IN  /\ SamePlace(d, c.d)
             /\ c.d.search = IF looks THEN (d.search + o) % RingScans ELSE d.search
             /\ d.source = "Level" /\ ~d.trigSw => (c.occurred <=> looks /\ o < n)
             /\ looks /\ o < n => c.d.trigScan = d.current - n + o + 1
<1> DEFINE c == CheckForTrigger(d, acquired)
           n == acquired - d.trigCount
           o == LevelOffset(d, n)
           z == [d EXCEPT !.trigCount = 0]
           hit == o < n
           at == d.current - n + o + 1
           q == (d.search + o) % RingScans
<1>1. CASE acquired <= d.trigCount
  <2>1. c = [occurred |-> FALSE, d |-> [d EXCEPT !.trigCount = d.trigCount - acquired]]
    BY <1>1 DEF CheckForTrigger
  <2>2. LET e == [d EXCEPT !.trigCount = d.trigCount - acquired]
        IN  SamePlace(d, e) /\ e.search = d.search
    BY SMTT(30) DEF SamePlace, IsPde, Flags, Counts, Others
  <2>3. ~(acquired > d.trigCount)
    BY <1>1 DEF IsPde, Counts
  <2> HIDE DEF c
  <2>4. c.occurred = FALSE /\ SamePlace(d, c.d) /\ c.d.search = d.search
    BY <2>1, <2>2
  <2> QED BY <2>3, <2>4 DEF c
<1>2. CASE acquired > d.trigCount
  <2>0. ~(acquired <= d.trigCount)
    BY <1>2 DEF IsPde, Counts
  <2>1. IsPde(z) /\ SamePlace(d, z) /\ z.search = d.search
    BY SMTT(30) DEF SamePlace, IsPde, Flags, Counts, Others
  <2>2. LevelOffset(z, n) = o
    <3> HIDE DEF z
    <3> QED BY <2>1, OffsetBySearch
  <2>3. CASE d.source = "Level" /\ ~d.trigSw
    <3> DEFINE g == [z EXCEPT !.search = q]
               s == IF hit THEN at ELSE g.trigScan
               e == [g EXCEPT !.trigScan = s]
    <3>1. c = [occurred |-> hit, d |-> e]
      BY <2>0, <2>1, <2>2, <2>3 DEF CheckForTrigger, Searched
    <3> HIDE DEF z, q, at, hit, c
    <3>2. SamePlace(d, g) /\ g.search = q /\ DOMAIN g = Flags \cup Counts \cup Others
      BY <2>1, SMTT(30) DEF SamePlace, IsPde, Flags, Counts, Others
    <3> HIDE DEF g, s
    <3>3. SamePlace(d, e) /\ e.search = q /\ e.trigScan = s
      BY <3>2, SMTT(30) DEF SamePlace, Flags, Counts, Others
    <3> HIDE DEF e
    <3>4. (c.occurred <=> hit) /\ c.d = e
      BY <3>1
    <3>5. hit => e.trigScan = at
      BY <3>3 DEF s
    <3> QED BY <1>2, <2>3, <3>3, <3>4, <3>5 DEF c, q, at, hit
  <2>4. CASE ~(d.source = "Level" /\ ~d.trigSw)
    <3>1. \/ c.d = z
          \/ \E s : c.d = [z EXCEPT !.trigScan = s]
      BY <2>0, <2>4 DEF CheckForTrigger
    <3> HIDE DEF z, c, n
    <3>2. SamePlace(d, c.d) /\ c.d.search = d.search
      <4>1. CASE c.d = z
        BY <2>1, <4>1
      <4>2. ASSUME NEW s, c.d = [z EXCEPT !.trigScan = s]
            PROVE  SamePlace(d, c.d) /\ c.d.search = d.search
        BY <2>1, <4>2, SMTT(30) DEF SamePlace, IsPde, Flags, Counts, Others
      <4> QED BY <3>1, <4>1, <4>2
    <3> QED BY <2>4, <3>2 DEF c
  <2> QED BY <2>3, <2>4
<1> QED BY <1>1, <1>2 DEF IsPde, Counts
-----------------------------------------------------------------------------
(* The end of an acquisition and its trigger, by what stands in the buffer *)
(* and by where the next search begins.                                    *)
LEMMA RoomFits ==
  ASSUME scans \in Nat, NEW d, IsPde(d), NEW n \in Nat,
         ~d.cyclic => d.inUser <= d.size, Owes(d, n)
  PROVE  Owes(d, Room(d, n))
<1>1. Room(d, n) \in Nat /\ Room(d, n) <= n
  BY DEF Room, Fills, IsPde, Counts
<1> QED BY <1>1 DEF Owes, NextWanted, IsPde, Counts

LEMMA OnStopPlaces ==
  ASSUME scans \in Nat, NEW d, IsPde(d), d.last <= d.stopScan,
         ~d.cyclic => d.inUser <= d.size, d.transferActive => d.userOpen,
         InPlace(d), Owes(d, d.stopScan - d.last)
  PROVE  InPlace(OnStop(d))
<1> DEFINE n == d.stopScan - d.last
           x == [SetupPostStopEvent(d) EXCEPT !.current = d.last]
           y == ComputeScansAcquired(x, 0)
           g == CopyNewScans(y, y.current - y.last)
           h == AdcDisarmAcquisition(g)
           e == AdcStop(h)
<1>1. n \in Nat /\ d.last \in Int /\ d.stopScan \in Int
  BY DEF IsPde, Counts
<1>2. /\ IsPde(x) /\ SamePlace(d, x) /\ SameMove(d, x) /\ x.event = "POSTSTOP"
      /\ x.current = d.last /\ x.stopScan = d.stopScan
  BY <1>1, SMTT(30) DEF SamePlace, SameMove, SetupPostStopEvent, Events,
                        IsPde, Flags, Counts, Others
<1>3. y = [x EXCEPT !.last = d.last, !.current = d.stopScan]
  BY <1>2 DEF ComputeScansAcquired
<1> HIDE DEF x, y
<1>4. /\ IsPde(y) /\ SamePlace(x, y) /\ SameMove(x, y)
      /\ y.current = d.stopScan /\ y.last = d.last
  BY <1>1, <1>2, <1>3, SMTT(30) DEF SamePlace, SameMove, IsPde, Flags, Counts, Others
<1>5. g = CopyNewScans(y, n)
  BY <1>4
<1> HIDE DEF g
<1>6. InPlace(y)
  BY <1>2, <1>4, SamePlaceKeeps
<1>7. Owes(y, Room(y, n))
  <2>1. NextWanted(y) = NextWanted(d) /\ (~y.cyclic => y.inUser <= y.size)
    BY <1>2, <1>4 DEF NextWanted, SameMove
  <2>2. Owes(y, n)
    BY <2>1 DEF Owes
  <2> HIDE DEF n
  <2> QED BY <1>1, <1>4, <2>1, <2>2, RoomFits
<1>8. IsPde(g) /\ InPlace(g)
  <2>1. (~y.cyclic => y.inUser <= y.size) /\ (y.transferActive => y.userOpen)
    BY <1>2, <1>4 DEF SameMove
  <2> HIDE DEF n
  <2> QED BY <1>1, <1>4, <1>5, <1>6, <1>7, <2>1, CopyNewScansPlaces, CopyNewScansType
<1>9. IsPde(h) /\ SamePlace(g, h)
  BY <1>8, DisarmAcquisitionType, DisarmAcquisitionPlace
<1> HIDE DEF h
<1>10. SamePlace(h, e)
  BY <1>9, StopPlace
<1> HIDE DEF e
<1>11. OnStop(d) = e
  <2>1. x.last = d.last /\ SetupPostStopEvent(d).last = d.last
    BY SMTT(30) DEF x, SetupPostStopEvent, IsPde, Flags, Counts, Others
  <2> QED BY <2>1 DEF OnStop, e, h, g, y, x
<1> QED BY <1>8, <1>9, <1>10, <1>11, SamePlaceKeeps

LEMMA OnTriggerPlaces ==
  ASSUME scans \in Nat, NEW d, IsPde(d), ~d.cyclic => d.inUser <= d.size,
         d.transferActive => d.userOpen,
         d.userHead < d.size, d.inUser <= 0, d.sent = 0,
         d.pre <= d.trigScan, d.trigScan <= scans + 1
  PROVE  /\ InPlace(OnTrigger(d))
         /\ OnTrigger(d).search = (d.trigScan + d.stopCount - 1) % RingScans
<1> DEFINE h == (d.trigScan - d.pre - 1) % RingScans
           x == [d EXCEPT !.head = h, !.first = d.trigScan - d.pre]
           g == CopyNewScans(x, d.pre)
           s == (g.trigScan + g.stopCount - 1) % RingScans
           e == OnTrigger(d)
<1>1. /\ h \in 0..(RingScans - 1) /\ d.pre \in Nat
      /\ d.trigScan \in Int /\ d.trigScan - d.pre \in Int /\ d.trigScan - d.pre - 1 \in Int
  <2>1. d.trigScan - d.pre - 1 \in Int /\ RingScans \in Nat \ {0} /\ d.pre \in Nat
        /\ d.trigScan \in Int
    BY SizesAssumption DEF IsPde, Counts
  <2>2. h \in 0..(RingScans - 1)
    BY <2>1, ModRange, Zenon
  <2> QED BY <2>1, <2>2
<1>2. /\ e = [[g EXCEPT !.event = "STOP", !.acqTriggered = TRUE, !.search = s]
                EXCEPT !.last = d.trigScan - 1]
  BY DEF OnTrigger, SetupStopEvent
<1> HIDE DEF s, e
<1>3. /\ IsPde(x) /\ x.trigScan = d.trigScan /\ x.stopCount = d.stopCount
      /\ x.inUser = d.inUser /\ x.size = d.size /\ x.cyclic = d.cyclic
      /\ x.sent = d.sent /\ x.first = d.trigScan - d.pre /\ x.head = h
      /\ x.userHead = d.userHead
      /\ x.transferActive = d.transferActive /\ x.userOpen = d.userOpen
  <2> HIDE DEF h
  <2> QED BY <1>1, SMTT(30) DEF IsPde, Flags, Counts, Others
<1> HIDE DEF x
<1>4. InPlace(x)
  <2>1. x.first + x.sent - 1 = d.trigScan - d.pre - 1
    BY <1>1, <1>3
  <2>2. x.head = (x.first + x.sent - 1) % RingScans
    BY <1>3, <2>1
  <2>3. Filled(x)
    <3>1. d.inUser \in Int
      BY DEF IsPde, Counts
    <3> QED BY <1>3, <3>1 DEF Filled
  <2> QED BY <1>3, <2>2, <2>3 DEF InPlace
<1>5. Owes(x, Room(x, d.pre))
  <2>1. Owes(x, d.pre)
    BY <1>1, <1>3 DEF Owes, NextWanted
  <2> QED BY <1>1, <1>3, <2>1, RoomFits
<1>6. IsPde(g) /\ InPlace(g)
  <2>1. ~x.cyclic => x.inUser <= x.size
    BY <1>3
  <2>2. InPlace(g)
    BY <1>1, <1>3, <1>4, <1>5, <2>1, CopyNewScansPlaces
  <2>3. d.pre \in Int
    BY <1>1
  <2>4. IsPde(g)
    BY <1>3, <2>3, CopyNewScansType
  <2> QED BY <2>2, <2>4
<1>7. g.trigScan = d.trigScan /\ g.stopCount = d.stopCount
  BY <1>1, <1>3, CopyNewScansFields DEF Copied, SameEvents
<1> HIDE DEF g
<1>8. SamePlace(g, e) /\ e.search = s
  BY <1>2, <1>6, SMTT(30) DEF SamePlace, IsPde, Flags, Counts, Others
<1>9. InPlace(e)
  BY <1>6, <1>8, SamePlaceKeeps
<1> QED BY <1>7, <1>8, <1>9 DEF e, s

(* The stop phase fills the buffer behind its head.                        *)
LEMMA StopPhasePlaces ==
  ASSUME scans \in Nat, Steady, NEW d, IsPde(d), NEW acquired \in Nat,
         Ready(d, acquired), InPlace(d)
  PROVE  LET e == StopPhase(d, acquired)
         IN  InPlace(e) /\ e.current <= d.current
<1> DEFINE c == CheckForStop(d, acquired)
           o == c.occurred
           b == c.d
           e == StopPhase(d, acquired)
<1>1. e = IF o THEN OnStop(b) ELSE CopyNewScans(b, acquired)
  BY DEF StopPhase, Ready
<1>2. IsPde(b) /\ AlikeButStop(d, b) /\ StopFound(d, acquired, o, b) /\ SamePlace(d, b)
  BY CheckForStopType, CheckForStopFields, CheckForStopSearch
<1> HIDE DEF c, o, b, e
<1>3. /\ InPlace(b) /\ NextWanted(b) = NextWanted(d) /\ b.last = d.last
      /\ b.current = d.current /\ (~b.cyclic => b.inUser <= b.size)
      /\ (b.transferActive => b.userOpen)
  BY <1>2, SamePlaceKeeps DEF AlikeButStop, SameTransfer, SameCounter, NextWanted, Ready
<1>4. /\ 0 <= NextWanted(d) /\ NextWanted(d) <= d.last + 1
      /\ d.last + acquired <= scans /\ d.last \in Int /\ NextWanted(d) \in Int
  <2>1. /\ d.first \in Int /\ d.sent \in Int /\ d.toMove \in Int /\ d.last \in Int
        /\ d.current \in Int
    BY DEF IsPde, Counts
  <2>2. /\ d.first >= 0 /\ d.sent >= 0 /\ d.toMove >= 0 /\ call.n \in Nat
        /\ d.first + d.sent + d.toMove + call.n = d.last + 1
        /\ d.last + acquired = d.current /\ d.current <= scans
    BY <2>1 DEF Ready, Steady
  <2> QED BY <2>1, <2>2 DEF NextWanted
<1>5. CASE o
  <2>1. d.last <= b.stopScan /\ b.stopScan <= d.current
    BY <1>2, <1>5 DEF StopFound, Ready, AtLeast, IsPde, Counts
  <2>2. Owes(b, b.stopScan - b.last) /\ b.stopScan - b.last \in Nat
    <3>1. b.stopScan \in Int /\ d.current = d.last + acquired
      BY <1>2 DEF Ready, IsPde, Counts
    <3> QED BY <1>3, <1>4, <2>1, <3>1 DEF Owes
  <2>3. InPlace(e)
    BY <1>1, <1>2, <1>3, <1>5, <2>1, <2>2, OnStopPlaces
  <2>4. e.current = b.stopScan
    BY <1>1, <1>2, <1>3, <1>5, <2>1, OnStopFields DEF Finished
  <2> QED BY <2>1, <2>3, <2>4 DEF e
<1>6. CASE ~o
  <2>1. Owes(b, acquired)
    BY <1>3, <1>4 DEF Owes
  <2>2. Owes(b, Room(b, acquired))
    BY <1>2, <1>3, <2>1, RoomFits
  <2>3. InPlace(e)
    BY <1>1, <1>2, <1>3, <1>6, <2>2, CopyNewScansPlaces
  <2>4. e.current = d.current
    BY <1>1, <1>2, <1>3, <1>6, CopyNewScansFields DEF Copied, SameCounter
  <2>5. d.current \in Int
    BY DEF IsPde, Counts
  <2> QED BY <2>3, <2>4, <2>5 DEF e
<1> QED BY <1>5, <1>6

(* Until the stop event the acquisition goes on.                           *)
LEMMA StopPhaseGoesOn ==
  ASSUME scans \in Nat, NEW d, IsPde(d), NEW acquired \in Nat, Ready(d, acquired)
  PROVE  LET e == StopPhase(d, acquired)
         IN  e.event # "POSTSTOP" => e.acqActive
<1> DEFINE c == CheckForStop(d, acquired)
           b == c.d
           e == StopPhase(d, acquired)
<1>1. e = IF c.occurred THEN OnStop(b) ELSE CopyNewScans(b, acquired)
  BY DEF StopPhase, Ready
<1>2. IsPde(b) /\ AlikeButStop(d, b) /\ StopFound(d, acquired, c.occurred, b)
  BY CheckForStopType, CheckForStopFields
<1> HIDE DEF c, b, e
<1>3. /\ b.last = d.last /\ b.acqActive /\ (~b.cyclic => b.inUser <= b.size)
      /\ (b.transferActive => b.userOpen)
  BY <1>2 DEF AlikeButStop, SameTransfer, SameCounter, SameRequest, Ready
<1>4. CASE c.occurred
  <2>1. b.last <= b.stopScan
    BY <1>2, <1>3, <1>4 DEF StopFound, Ready, AtLeast, IsPde, Counts
  <2>2. e.event = "POSTSTOP"
    BY <1>1, <1>2, <1>3, <1>4, <2>1, OnStopFields DEF Finished
  <2> QED BY <2>2 DEF e
<1>5. CASE ~c.occurred
  BY <1>1, <1>2, <1>3, <1>5, CopyNewScansFields DEF Copied, SameRequest, e
<1> QED BY <1>4, <1>5
-----------------------------------------------------------------------------
(* The timer callback, up to where it looks for the events: it ends the    *)
(* acquisition, or has counted new scans and moved none.                   *)
Dropped(d, e) ==
  /\ SamePlace(d, e) /\ e.search = d.search
  /\ e.event = d.event /\ e.trigScan = d.trigScan /\ e.trigSw = d.trigSw
  /\ e.stopScan = d.stopScan
  /\ e.toMove = 0 /\ ~e.acqActive /\ ~e.transferActive

Fresh(f, acquired, lag) ==
  /\ Scanned(f, acquired) /\ SamePlace(pde, f) /\ f.search = pde.search
  /\ acquired + f.toMove <= RingScans
  /\ acquired > 0 => scans <= f.current + lag

LEMMA FatalPlace ==
  ASSUME NEW e, IsPde(e), fault \in BOOLEAN, NEW acquired, fault \/ Overrun(e, acquired)
  PROVE  Dropped(e, AdcCheckFatalErrors(e, acquired))
<1> DEFINE d == AdcCheckFatalErrors(e, acquired)
<1>1. ASSUME NEW x, IsPde(x)
      PROVE  IsPde(AdcStop(AdcDisarm(x))) /\ Dropped(x, AdcStop(AdcDisarm(x)))
  <2> DEFINE y == AdcDisarm(x)
             z == AdcStop(y)
  <2>1. IsPde(y) /\ Quiet(y)
    BY <1>1, DisarmType
  <2>2. SamePlace(x, y) /\ y.search = x.search /\ SameEvents(x, y) /\ y.toMove = 0
    BY <1>1, DisarmPlace, DisarmFields
  <2> HIDE DEF y
  <2>3. IsPde(z) /\ SamePlace(y, z) /\ z.search = y.search
    BY <2>1, StopType, StopPlace
  <2>4. SameEvents(y, z) /\ SameRequest(y, z) /\ z.toMove = y.toMove /\ ~z.transferActive
    BY <2>1, StopFields
  <2> HIDE DEF z
  <2>5. Dropped(x, z)
    BY <2>1, <2>2, <2>3, <2>4 DEF Dropped, SamePlace, SameEvents, SameRequest, Quiet
  <2> QED BY <2>3, <2>5 DEF z, y
<1>2. CASE fault
  <2> DEFINE x == [e EXCEPT !.error = "Hardware"]
  <2>1. IsPde(x) /\ SameEvents(e, x) /\ SamePlace(e, x) /\ x.search = e.search
    BY SMTT(30) DEF SameEvents, SamePlace, IsPde, Flags, Counts, Others
  <2>2. d = AdcStop(AdcDisarm(x))
    BY <1>2 DEF AdcCheckFatalErrors
  <2> HIDE DEF x, d
  <2>3. Dropped(x, d)
    BY <1>1, <2>1, <2>2
  <2> QED BY <2>1, <2>3 DEF Dropped, SamePlace, SameEvents, d
<1>3. CASE ~fault
  <2> DEFINE y == AdcStop(AdcDisarm(e))
  <2>1. IsPde(y) /\ Dropped(e, y)
    BY <1>1
  <2>2. d = [y EXCEPT !.error = "Overrun"]
    BY <1>3 DEF AdcCheckFatalErrors
  <2> HIDE DEF y, d
  <2>3. /\ SameEvents(y, d) /\ SamePlace(y, d) /\ d.search = y.search
        /\ d.toMove = y.toMove /\ d.acqActive = y.acqActive
        /\ d.transferActive = y.transferActive
    BY <2>1, <2>2, SMTT(30) DEF SameEvents, SamePlace, IsPde, Flags, Counts, Others
  <2> QED BY <2>1, <2>3 DEF Dropped, SamePlace, SameEvents, d
<1> QED BY <1>2, <1>3

LEMMA CallbackCases ==
  ASSUME Running, NEW lag \in Nat
  PROVE  LET d == CheckEventsAndMoveData(pde, lag)
         IN  \/ Dropped(pde, d)
             \/ \E f, acquired :
                  /\ Fresh(f, acquired, lag)
                  /\ d = IF acquired = 0 THEN f
                         ELSE IF f.event = "TRIGGER" THEN TriggerPhase(f, acquired)
                         ELSE StopPhase(f, acquired)
<1> DEFINE e == ComputeScansAcquired(pde, lag)
           acquired == e.current - e.last
           f == AdcCheckFatalErrors(e, acquired)
           d == CheckEventsAndMoveData(pde, lag)
<1>1. /\ IsPde(pde) /\ scans \in Nat /\ pde.event \in {"TRIGGER", "STOP"}
      /\ fault \in BOOLEAN
  BY RunningFacts DEF Running
<1>2. /\ 0 <= pde.current /\ pde.current <= pde.read /\ pde.read <= scans
      /\ 0 <= pde.lastPass
  BY <1>1 DEF Running, Ledger, Ordered
<1>3. IsPde(e) /\ SamePlace(pde, e) /\ e.search = pde.search
  BY <1>1, ComputeType, ComputePlace
<1>4. /\ SameTransfer(pde, e) /\ SameRequest(pde, e) /\ e.stale = pde.stale
      /\ e.event = pde.event
      /\ e.trigCount = pde.trigCount /\ e.trigScan = pde.trigScan
      /\ e.trigSw = pde.trigSw
      /\ e.stopCount = pde.stopCount /\ e.stopScan = pde.stopScan
      /\ e.stopSw = pde.stopSw
      /\ e.lastPass = pde.lastPass /\ e.last = pde.current /\ e.current = e.read
      /\ pde.read <= e.read /\ e.read <= scans
      /\ \/ e.trigHw \/ pde.event # "TRIGGER" \/ pde.source # "Hardware"
         \/ e.read = pde.read
      /\ pde.trigHw => e.trigHw
      /\ \/ scans <= e.current + lag
         \/ /\ pde.event = "TRIGGER" /\ pde.source = "Hardware" /\ ~pde.trigHw
            /\ e.read = pde.read
  BY <1>1, <1>2, ComputeFields
<1>5. d = IF fault \/ Overrun(e, acquired) THEN f
          ELSE IF f.event = "TRIGGER" THEN TriggerPhase(f, acquired)
          ELSE StopPhase(f, acquired)
  BY DEF CheckEventsAndMoveData
<1> HIDE DEF e, f, d
<1>6. /\ acquired \in Nat /\ e.current = pde.current + acquired
      /\ e.current \in Int /\ pde.current \in Int /\ pde.read \in Int
  BY <1>1, <1>2, <1>3, <1>4 DEF IsPde, Counts
<1> HIDE DEF acquired
<1>7. CASE fault \/ Overrun(e, acquired)
  <2>1. Dropped(e, d)
    BY <1>1, <1>3, <1>5, <1>7, FatalPlace DEF f
  <2>2. e.transferActive = pde.transferActive
    BY <1>4 DEF SameTransfer
  <2>3. SamePlace(pde, d) /\ d.search = pde.search
    BY <1>3, <2>1 DEF Dropped, SamePlace
  <2>4. Dropped(pde, d)
    BY <1>4, <2>1, <2>3 DEF Dropped
  <2> QED BY <2>4 DEF d
<1>8. CASE ~(fault \/ Overrun(e, acquired))
  <2>1. f = [e EXCEPT !.lastPass = acquired]
    BY <1>8 DEF f, AdcCheckFatalErrors
  <2>2. /\ IsPde(f) /\ SameEvents(e, f) /\ SameTransfer(e, f) /\ SameRequest(e, f)
        /\ f.stale = e.stale /\ f.last = e.last /\ f.current = e.current
        /\ f.read = e.read /\ f.lastPass = acquired
    BY <1>3, <1>6, <2>1, SMTT(30) DEF SameEvents, SameTransfer, SameRequest,
                                      IsPde, Flags, Counts, Others
  <2>3. SamePlace(e, f) /\ f.search = e.search
    BY <1>3, <2>1, SMTT(30) DEF SamePlace, IsPde, Flags, Counts, Others
  <2>4. SamePlace(pde, f) /\ f.search = pde.search
    BY <1>3, <2>3 DEF SamePlace
  <2>5. Scanned(f, acquired)
    <3>1. /\ f.event = e.event /\ f.trigCount = e.trigCount /\ f.trigScan = e.trigScan
          /\ f.trigSw = e.trigSw /\ f.trigHw = e.trigHw /\ f.stopCount = e.stopCount
          /\ f.stopScan = e.stopScan /\ f.stopSw = e.stopSw /\ f.source = e.source
          /\ e.source = pde.source
      BY <1>4, <2>2 DEF SameEvents, SameRequest
    <3>2. 0 <= f.lastPass
      BY <1>6, <2>2
    <3>3. SameTransfer(pde, f) /\ SameRequest(pde, f)
      BY <1>4, <2>2 DEF SameTransfer, SameRequest
    <3>4. /\ f.stale = pde.stale /\ f.event = pde.event
          /\ f.trigCount = pde.trigCount /\ f.trigScan = pde.trigScan
          /\ f.trigSw = pde.trigSw
          /\ f.stopCount = pde.stopCount /\ f.stopScan = pde.stopScan
          /\ f.stopSw = pde.stopSw
          /\ f.last = pde.current /\ f.current = f.read
          /\ f.current = pde.current + acquired
          /\ pde.read <= f.read /\ f.read <= scans
      BY <1>4, <1>6, <2>2, <3>1
    <3>5. /\ \/ f.trigHw \/ f.event # "TRIGGER" \/ f.source # "Hardware"
             \/ f.read = pde.read
          /\ pde.trigHw => f.trigHw
      BY <1>4, <2>2, <3>1
    <3> QED BY <1>6, <2>2, <3>2, <3>3, <3>4, <3>5 DEF Scanned
  <2>6. acquired + f.toMove <= RingScans
    <3>1. f.toMove = e.toMove /\ e.toMove \in Int /\ e.lastPass \in Int
      BY <1>3, <2>2 DEF SameTransfer, IsPde, Counts
    <3> QED BY <1>2, <1>4, <1>6, <1>8, <3>1, SizesAssumption DEF Overrun
  <2>7. acquired > 0 => scans <= f.current + lag
    <3>1. SUFFICES ASSUME acquired > 0,
                          pde.event = "TRIGGER", pde.source = "Hardware", ~pde.trigHw,
                          e.read = pde.read
                   PROVE  FALSE
      BY <1>4, <2>2
    <3>2. pde.read = 0
      BY <3>1, RunningFacts DEF Running, Ledger, Awaiting
    <3>3. e.current = 0 /\ 0 <= pde.current
      BY <1>2, <1>4, <3>1, <3>2
    <3> QED BY <1>6, <3>1, <3>3
  <2>8. Fresh(f, acquired, lag)
    BY <2>4, <2>5, <2>6, <2>7 DEF Fresh
  <2>9. acquired = 0 => d = f
    BY <1>5, <1>8 DEF TriggerPhase, StopPhase
  <2> QED BY <1>5, <1>8, <2>8, <2>9 DEF d
<1> QED BY <1>7, <1>8 DEF d
-----------------------------------------------------------------------------
(* What a callback leaves in the buffer.                                   *)
LEMMA MovingKeeps ==
  ASSUME NEW d, NEW e, IsPde(d), IsPde(e), call.n \in Int, SamePlace(d, e), Filled(Moving(d))
  PROVE  Filled(Moving(e))
<1>1. CASE call.at = "startAdvance"
  <2>1. ASSUME NEW x, IsPde(x)
        PROVE  LET y == Advance(x, call.n)
               IN  /\ y.buf = x.buf /\ y.size = x.size /\ y.first = x.first
                   /\ y.userHead = (x.userHead + call.n) % x.size
                   /\ y.inUser = x.inUser + call.n /\ y.sent = x.sent + call.n
    <3> DEFINE hd == (x.head + call.n) % RingScans
               uh == (x.userHead + call.n) % x.size
               y == Advance(x, call.n)
    <3>1. y = [x EXCEPT !.head = hd, !.userHead = uh,
                        !.inUser = x.inUser + call.n, !.sent = x.sent + call.n]
      BY DEF Advance
    <3> HIDE DEF hd, uh, y
    <3>2. /\ y.buf = x.buf /\ y.size = x.size /\ y.first = x.first /\ y.userHead = uh
          /\ y.inUser = x.inUser + call.n /\ y.sent = x.sent + call.n
      BY <2>1, <3>1, SMTT(30) DEF IsPde, Flags, Counts, Others
    <3> QED BY <3>2 DEF y, uh
  <2> DEFINE x == Advance(d, call.n)
             y == Advance(e, call.n)
  <2>2. /\ x.buf = d.buf /\ x.size = d.size /\ x.first = d.first
        /\ x.userHead = (d.userHead + call.n) % d.size
        /\ x.inUser = d.inUser + call.n /\ x.sent = d.sent + call.n
    BY <2>1
  <2>3. /\ y.buf = e.buf /\ y.size = e.size /\ y.first = e.first
        /\ y.userHead = (e.userHead + call.n) % e.size
        /\ y.inUser = e.inUser + call.n /\ y.sent = e.sent + call.n
    BY <2>1
  <2>4. Filled(x)
    BY <1>1 DEF Moving
  <2> HIDE DEF x, y
  <2>5. /\ y.buf = x.buf /\ y.size = x.size /\ y.first = x.first
        /\ y.userHead = x.userHead /\ y.inUser = x.inUser /\ y.sent = x.sent
    BY <2>2, <2>3 DEF SamePlace
  <2>6. Filled(y)
    BY <2>4, <2>5 DEF Filled
  <2> QED BY <1>1, <2>6 DEF Moving, y
<1>2. CASE call.at # "startAdvance"
  BY <1>2, SamePlaceKeeps DEF Moving
<1> QED BY <1>1, <1>2

(* A step that moves no scan, and keeps or drops those that wait.          *)
LEMMA ContentKept ==
  ASSUME IsPde(pde), scans \in Nat, call.n \in Int, Content(pde),
         NEW d, IsPde(d), SamePlace(pde, d), d.event = pde.event, d.toMove <= pde.toMove
  PROVE  Content(d)
<1>1. Placed(d)
  BY DEF Content, Placed, SamePlace
<1>2. Present(d)
  <2>1. /\ pde.first \in Int /\ pde.sent \in Int /\ pde.toMove \in Int /\ d.toMove \in Int
    BY DEF IsPde, Counts
  <2> QED BY <2>1 DEF Content, Present, SamePlace
<1>3. ~d.stale => Filled(Moving(d))
  BY MovingKeeps DEF Content, SamePlace
<1> QED BY <1>1, <1>2, <1>3 DEF Content

LEMMA ContentFrom ==
  ASSUME scans \in Nat, call.n \in Nat, call.at # "startAdvance",
         NEW d, IsPde(d), Ledger(d), InPlace(d), d.current <= scans,
         d.event = "POSTSTOP" \/ (d.event = "STOP" /\ d.acqActive)
  PROVE  Content(d)
<1>1. Placed(d)
  BY DEF Placed, InPlace
<1>2. Present(d)
  <2>1. /\ d.first + d.sent + d.toMove + d.dropped + call.n = d.current + 1
        /\ d.first >= 0 /\ d.dropped >= 0
    BY DEF Ledger, Owed, Held, IsPde, Counts
  <2>2. /\ d.first \in Int /\ d.sent \in Int /\ d.toMove \in Int /\ d.dropped \in Int
        /\ d.current \in Int
    BY DEF IsPde, Counts
  <2> QED BY <2>1, <2>2 DEF Present
<1>3. ~d.stale => Filled(Moving(d))
  BY DEF InPlace, Moving
<1> QED BY <1>1, <1>2, <1>3 DEF Content

(* A callback that does no harm to an ioctl leaves the buffer in order.    *)
LEMMA CallbackContent ==
  ASSUME Running, Content(pde), NEW lag \in Nat
  PROVE  LET d == CheckEventsAndMoveData(pde, lag)
         IN  Harmful(d) \/ Content(d)
<1> DEFINE d == CheckEventsAndMoveData(pde, lag)
<1> SUFFICES ASSUME ~Harmful(d) PROVE Content(d)
  OBVIOUS
<1>1. /\ IsPde(pde) /\ scans \in Nat /\ fault \in BOOLEAN /\ call.n \in Nat
      /\ pde.event \in {"TRIGGER", "STOP"} /\ pde.acqActive
  BY RunningFacts DEF Running
<1>2. IsPde(d)
  BY <1>1, CallbackType
<1>3. Ledger(d)
  BY CallbackLedger DEF Outcome
<1>4. \/ Dropped(pde, d)
      \/ \E f, acquired :
           /\ Fresh(f, acquired, lag)
           /\ d = IF acquired = 0 THEN f
                  ELSE IF f.event = "TRIGGER" THEN TriggerPhase(f, acquired)
                  ELSE StopPhase(f, acquired)
  BY CallbackCases
<1> HIDE DEF d
<1>5. CASE Dropped(pde, d)
  <2>1. d.toMove <= pde.toMove /\ d.event = pde.event /\ SamePlace(pde, d)
    BY <1>5 DEF Dropped, Running, Ledger, Held
  <2> QED BY <1>1, <1>2, <2>1, ContentKept
<1>6. ASSUME NEW f, NEW acquired, Fresh(f, acquired, lag),
             d = IF acquired = 0 THEN f
                 ELSE IF f.event = "TRIGGER" THEN TriggerPhase(f, acquired)
                 ELSE StopPhase(f, acquired)
      PROVE  Content(d)
  <2>1. /\ Scanned(f, acquired) /\ IsPde(f) /\ SamePlace(pde, f) /\ f.event = pde.event
        /\ f.toMove = pde.toMove /\ f.current <= scans /\ acquired \in Nat
        /\ acquired + f.toMove <= RingScans
    BY <1>6 DEF Fresh, Scanned, SameTransfer
  <2>2. f.toMove <= pde.toMove
    BY <2>1 DEF IsPde, Counts
  <2>3. CASE acquired = 0
    <3>1. d = f
      BY <1>6, <2>3
    <3> QED BY <1>1, <2>1, <2>2, <3>1, ContentKept
  <2>4. CASE acquired > 0 /\ f.event = "STOP"
    <3>1. d = StopPhase(f, acquired)
      BY <1>6, <2>4
    <3>2. call.at # "startAdvance"
      BY <2>1, <2>4, <3>1, AdvanceHarmed
    <3>3. Ready(f, acquired) /\ Steady
      BY <2>1, <2>4, <3>2, StopReady
    <3>4. InPlace(f)
      <4>1. InPlace(pde)
        BY <2>1, <2>4, <3>2 DEF Content, Placed, Moving, InPlace
      <4> QED BY <2>1, <4>1, SamePlaceKeeps
    <3>5. InPlace(d) /\ d.current <= f.current
      BY <1>1, <2>1, <3>1, <3>3, <3>4, StopPhasePlaces
    <3>6. d.event = "POSTSTOP" \/ (d.event = "STOP" /\ d.acqActive)
      <4>1. hist.armed.pre \in Nat
        BY RunningFacts
      <4>2. d.event = "POSTSTOP" \/ d.event = "STOP"
        BY <1>1, <2>1, <3>1, <3>3, <4>1, StopPhaseLedger
      <4>3. d.event # "POSTSTOP" => d.acqActive
        BY <1>1, <2>1, <2>4, <3>1, <3>3, StopPhaseGoesOn
      <4> QED BY <4>2, <4>3
    <3>7. d.current <= scans
      BY <1>1, <1>2, <2>1, <3>5 DEF IsPde, Counts
    <3> QED BY <1>1, <1>2, <1>3, <3>2, <3>5, <3>6, <3>7, ContentFrom
  <2>5. CASE acquired > 0 /\ f.event = "TRIGGER"
    <3> DEFINE c == CheckForTrigger(f, acquired)
               b == c.d
               t == OnTrigger(b)
               left == b.current - b.trigScan + 1
    <3>1. d = IF c.occurred THEN StopPhase(t, left) ELSE b
      BY <1>6, <2>5 DEF TriggerPhase
    <3>2. /\ IsPde(b) /\ AlikeButTrigger(f, b)
          /\ TriggerFound(f, acquired, c.occurred, b) /\ SamePlace(f, b)
      <4>1. acquired \in Int
        BY <2>1
      <4>2. IsPde(b)
        BY <2>1, <4>1, CheckForTriggerType
      <4>3. AlikeButTrigger(f, b) /\ TriggerFound(f, acquired, c.occurred, b)
        BY <2>1, CheckForTriggerFields
      <4>4. SamePlace(f, b)
        BY <2>1, CheckForTriggerSearch
      <4> QED BY <4>2, <4>3, <4>4
    <3> HIDE DEF c, b
    <3>3. /\ ~Holding /\ call.n = 0 /\ pde.sent = 0 /\ pde.toMove = 0
          /\ pde.userHead < pde.size /\ pde.inUser <= 0
      BY <2>1, <2>5 DEF Running, Ledger, Held, Content, Placed
    <3>4. CASE ~c.occurred
      <4>1. d = b
        BY <3>1, <3>4
      <4>2. SamePlace(pde, d) /\ d.event = pde.event /\ d.toMove <= pde.toMove
        BY <2>1, <2>2, <3>2, <4>1 DEF SamePlace, AlikeButTrigger, SameTransfer
      <4> QED BY <1>1, <1>2, <4>2, ContentKept
    <3>5. CASE c.occurred
      <4>1. TriggerFound(f, acquired, TRUE, b)
        BY <3>2, <3>5 DEF TriggerFound
      <4>2. /\ IsPde(t) /\ left \in Nat /\ Ready(t, left) /\ Steady
            /\ t.current = f.current
        BY <2>1, <2>5, <3>2, <4>1, TriggerReady
      <4>3. d = StopPhase(t, left)
        BY <3>1, <3>5
      <4>4. InPlace(t)
        <5>1. /\ ~b.cyclic => b.inUser <= b.size
              /\ b.transferActive => b.userOpen
              /\ b.userHead < b.size /\ b.inUser <= 0 /\ b.sent = 0
          <6>1. /\ SamePlace(pde, b) /\ b.cyclic = pde.cyclic
                /\ b.transferActive = pde.transferActive /\ b.userOpen = pde.userOpen
            BY <2>1, <3>2 DEF SamePlace, AlikeButTrigger, SameTransfer, Scanned
          <6> QED BY <3>3, <6>1 DEF SamePlace, Running, Ledger, Held
        <5>2. b.pre <= b.trigScan /\ b.trigScan <= scans + 1
          <6>1. Triggers(b, t)
            BY <1>1, <3>2, <5>1, OnTriggerFields
          <6>2. t.first >= 0 /\ t.trigScan - 1 <= t.last /\ t.last <= t.current
            BY <4>2 DEF Ready, IsPde, Flags, Counts
          <6>3. t.first = b.trigScan - b.pre /\ t.trigScan = b.trigScan
            BY <6>1 DEF Triggers
          <6>4. t.current \in Int /\ t.last \in Int /\ b.trigScan \in Int /\ b.pre \in Nat
            BY <3>2, <4>2 DEF IsPde, Counts
          <6> QED BY <1>1, <2>1, <4>2, <6>2, <6>3, <6>4
        <5> QED BY <1>1, <3>2, <5>1, <5>2, OnTriggerPlaces
      <4> HIDE DEF t, left
      <4>5. InPlace(d) /\ d.current <= t.current
        BY <1>1, <4>2, <4>3, <4>4, StopPhasePlaces
      <4>6. d.event = "POSTSTOP" \/ (d.event = "STOP" /\ d.acqActive)
        <5>1. hist.armed.pre \in Nat
          BY RunningFacts
        <5>2. d.event = "POSTSTOP" \/ d.event = "STOP"
          BY <1>1, <4>2, <4>3, <5>1, StopPhaseLedger
        <5>3. d.event # "POSTSTOP" => d.acqActive
          BY <1>1, <4>2, <4>3, StopPhaseGoesOn
        <5> QED BY <5>2, <5>3
      <4>7. d.current <= scans
        BY <1>1, <1>2, <2>1, <4>2, <4>5 DEF IsPde, Counts
      <4>8. call.at # "startAdvance"
        BY <3>3 DEF Holding
      <4> QED BY <1>1, <1>2, <1>3, <4>5, <4>6, <4>7, <4>8, ContentFrom
    <3> QED BY <3>4, <3>5
  <2> QED BY <1>1, <2>1, <2>3, <2>4, <2>5
<1> QED BY <1>4, <1>5, <1>6
-----------------------------------------------------------------------------
(* What a step of an ioctl that hands over nothing leaves: the buffer but  *)
(* for an argument over its head, and what the search depends on.          *)
Over(d, e) ==
  /\ e.userHead = d.userHead /\ e.size = d.size /\ e.inUser = d.inUser
  /\ e.sent = d.sent /\ e.first = d.first /\ e.head = d.head /\ e.stale = d.stale
  /\ e.toMove = d.toMove \/ e.toMove = 0
  /\ \A p \in Cells : e.buf[p] = d.buf[p] \/ (p < ArgScans /\ e.buf[p] = Arg)

SameSearch(d, e) ==
  /\ e.event = d.event /\ e.search = d.search /\ e.current = d.current
  /\ e.trigScan = d.trigScan \/ d.event = "TRIGGER"
  /\ e.stopScan = d.stopScan \/ d.event = "STOP"
  /\ d.trigSw => e.trigSw
  /\ e.running => d.running
  /\ e.acqActive =>
       /\ d.acqActive /\ e.source = d.source /\ e.stop = d.stop
       /\ e.pre = d.pre /\ e.post = d.post

LEMMA WithArgOver ==
  ASSUME NEW d, IsPde(d)
  PROVE  Over(d, WithArg(d)) /\ SameSearch(d, WithArg(d))
<1> DEFINE buf == [p \in Cells |-> IF p < ArgScans THEN Arg ELSE d.buf[p]]
           e == WithArg(d)
<1>1. e = [d EXCEPT !.buf = buf]
  BY DEF WithArg
<1>2. \A p \in Cells : buf[p] = d.buf[p] \/ (p < ArgScans /\ buf[p] = Arg)
  OBVIOUS
<1> HIDE DEF buf, e
<1>3. /\ e.userHead = d.userHead /\ e.size = d.size /\ e.inUser = d.inUser
      /\ e.sent = d.sent /\ e.first = d.first /\ e.head = d.head /\ e.stale = d.stale
      /\ e.toMove = d.toMove /\ e.buf = buf
  BY <1>1, SMTT(30) DEF IsPde, Flags, Counts, Others
<1>4. SameSearch(d, e)
  BY <1>1, SMTT(30) DEF SameSearch, IsPde, Flags, Counts, Others
<1> QED BY <1>2, <1>3, <1>4 DEF Over, e

LEMMA OverOver ==
  ASSUME NEW d, NEW e, NEW g, Over(d, e), SameSearch(d, e)
  PROVE  /\ SamePlace(e, g) /\ (g.toMove = e.toMove \/ g.toMove = 0) => Over(d, g)
         /\ SameSearch(e, g) => SameSearch(d, g)
<1>1. SamePlace(e, g) /\ (g.toMove = e.toMove \/ g.toMove = 0) => Over(d, g)
  BY DEF Over, SamePlace
<1>2. SameSearch(e, g) => SameSearch(d, g)
  BY DEF SameSearch
<1> QED BY <1>1, <1>2

LEMMA ReadPlace ==
  ASSUME scans \in Nat, NEW d, IsPde(d), NEW lag \in Nat
  PROVE  LET r == ReadAcqScanCounter(d, lag)
             e == [r EXCEPT !.trigScan = IF r.event = "TRIGGER" THEN r.read ELSE @,
                            !.stopScan = IF r.event = "STOP" THEN r.read ELSE @]
         IN  SamePlace(d, e) /\ e.toMove = d.toMove /\ SameSearch(d, e)
<1> DEFINE waiting == d.event = "TRIGGER" /\ d.source = "Hardware" /\ ~d.trigHw
           read == AtLeast(d.read, scans - lag)
           hw == d.trigHw \/ waiting
           r == ReadAcqScanCounter(d, lag)
           x == IF r.event = "TRIGGER" THEN r.read ELSE r.trigScan
           y == IF r.event = "STOP" THEN r.read ELSE r.stopScan
           e == [r EXCEPT !.trigScan = x, !.stopScan = y]
<1>1. r = IF waiting /\ d.pacer # "on" THEN d ELSE [d EXCEPT !.read = read, !.trigHw = hw]
  BY DEF ReadAcqScanCounter
<1>2. IsPde(r)
  BY ReadType
<1> HIDE DEF waiting, read, hw, r
<1>3. /\ SamePlace(d, r) /\ r.toMove = d.toMove /\ SameSearch(d, r)
      /\ r.trigScan = d.trigScan /\ r.stopScan = d.stopScan
  BY <1>1, SMTT(30) DEF SamePlace, SameSearch, IsPde, Flags, Counts, Others
<1>4. (x = r.trigScan \/ r.event = "TRIGGER") /\ (y = r.stopScan \/ r.event = "STOP")
  OBVIOUS
<1> HIDE DEF x, y
<1>5. SamePlace(r, e) /\ e.toMove = r.toMove /\ SameSearch(r, e)
  BY <1>2, <1>4, SMTT(30) DEF SamePlace, SameSearch, IsPde, Flags, Counts, Others
<1>6. SamePlace(d, e) /\ e.toMove = d.toMove /\ SameSearch(d, e)
  BY <1>3, <1>5 DEF SamePlace, SameSearch
<1> QED BY <1>6 DEF e, x, y, r

LEMMA DisarmSearch ==
  ASSUME NEW d, IsPde(d)
  PROVE  SameSearch(d, AdcDisarm(d)) /\ ~AdcDisarm(d).acqActive
<1>1. SameEvents(d, AdcDisarm(d)) /\ SameCounter(d, AdcDisarm(d))
  BY DisarmFields
<1>2. Quiet(AdcDisarm(d)) /\ AdcDisarm(d).running = d.running
  BY DisarmType
<1>3. AdcDisarm(d).search = d.search
  BY DisarmPlace
<1> QED BY <1>1, <1>2, <1>3 DEF SameSearch, SameEvents, SameCounter, Quiet

LEMMA StopSearch ==
  ASSUME NEW d, IsPde(d)
  PROVE  SameSearch(d, AdcStop(d))
BY SMTT(30) DEF SameSearch, AdcStop, IsPde, Flags, Counts, Others
-----------------------------------------------------------------------------
(* The ioctls that begin: none hands over a scan, and none changes what    *)
(* the search depends on but to end the acquisition.                       *)
LEMMA ProgramPlaces ==
  ASSUME IInv, Program
  PROVE  /\ scans' = scans /\ hist' = hist
         /\ call.at = "none" /\ (call' = call \/ call'.n = 0)
         /\ call'.at # "startAdvance"
         /\ SameSearch(pde, pde') /\ Over(pde, pde')
<1> DEFINE w == WithArg(pde)
           Fine(d) == Over(pde, d) /\ SameSearch(pde, d)
<1>1. IsPde(pde) /\ scans \in Nat /\ call.at = "none"
  BY DEF IInv, TypeOK, Program, AdcConfigure, AdcArmBegin, AdcDisarmCall, AdcStopCall,
         AdcGetStatus, AdcStartBegin, AdcSoftTrigScan, Begins
<1>2. IsPde(w) /\ Fine(w)
  BY <1>1, WithArgType, WithArgOver
<1> HIDE DEF w
<1>3. ASSUME NEW d, SamePlace(w, d), d.toMove = w.toMove \/ d.toMove = 0, SameSearch(w, d)
      PROVE  Fine(d)
  BY <1>2, <1>3, OverOver
<1>4. ASSUME NEW d, OneStep(d), Fine(d)
      PROVE  /\ scans' = scans /\ hist' = hist /\ call' = call
             /\ SameSearch(pde, pde') /\ Over(pde, pde')
  BY <1>4 DEF OneStep
<1> HIDE DEF Fine
<1>5. CASE AdcConfigure
  <2>1. CASE OneStep([w EXCEPT !.configured = FALSE])
    <3> DEFINE e == [w EXCEPT !.configured = FALSE]
    <3>1. SamePlace(w, e) /\ e.toMove = w.toMove /\ SameSearch(w, e)
      BY <1>2, SMTT(30) DEF SamePlace, SameSearch, IsPde, Flags, Counts, Others
    <3> HIDE DEF e
    <3>2. Fine(e)
      BY <1>3, <3>1
    <3>3. OneStep(e)
      BY <2>1 DEF e
    <3> QED BY <1>1, <1>4, <3>2, <3>3
  <2>2. ASSUME ~w.acqActive, NEW a, NEW b, NEW f \in BOOLEAN
        PROVE  Fine([w EXCEPT !.configured = f, !.source = a, !.stop = b])
    <3> DEFINE e == [w EXCEPT !.configured = f, !.source = a, !.stop = b]
    <3>1. SamePlace(w, e) /\ e.toMove = w.toMove /\ SameSearch(w, e)
      BY <1>2, <2>2, SMTT(30) DEF SamePlace, SameSearch, IsPde, Flags, Counts, Others
    <3> HIDE DEF e
    <3>2. Fine(e)
      BY <1>3, <3>1
    <3> QED BY <3>2 DEF e
  <2>4. ASSUME ~w.acqActive, NEW a, NEW b, NEW m, NEW n
        PROVE  Fine([w EXCEPT !.configured = TRUE, !.source = a, !.stop = b, !.pre = m,
                       !.post = n, !.trigCount = m, !.stopCount = n])
    <3> DEFINE e == [w EXCEPT !.configured = TRUE, !.source = a, !.stop = b, !.pre = m,
                       !.post = n, !.trigCount = m, !.stopCount = n]
    <3>1. SamePlace(w, e) /\ e.toMove = w.toMove /\ SameSearch(w, e)
      BY <1>2, <2>4, SMTT(30) DEF SamePlace, SameSearch, IsPde, Flags, Counts, Others
    <3> HIDE DEF e
    <3>2. Fine(e)
      BY <1>3, <3>1
    <3> QED BY <3>2 DEF e
  <2>3. CASE ~OneStep([w EXCEPT !.configured = FALSE])
    <3>1. PICK c \in Configs :
            /\ ~pde.acqActive
            /\ \/ OneStep([w EXCEPT !.configured = FALSE,
                             !.source = c.source, !.stop = c.stop])
               \/ OneStep([w EXCEPT !.configured = TRUE,
                             !.source = c.source, !.stop = c.stop,
                             !.pre = c.pre, !.post = c.post,
                             !.trigCount = c.pre, !.stopCount = c.post])
      BY <1>5, <2>3 DEF AdcConfigure, w
    <3>2. ~w.acqActive
      BY <1>2, <3>1 DEF Fine, SameSearch, IsPde, Flags
    <3>3. Fine([w EXCEPT !.configured = FALSE, !.source = c.source, !.stop = c.stop])
      BY <2>2, <3>2
    <3>4. Fine([w EXCEPT !.configured = TRUE, !.source = c.source, !.stop = c.stop,
                  !.pre = c.pre, !.post = c.post, !.trigCount = c.pre, !.stopCount = c.post])
      BY <2>4, <3>2
    <3>5. \E e : OneStep(e) /\ Fine(e)
      BY <3>1, <3>3, <3>4, Zenon
    <3> QED BY <1>1, <1>4, <3>5
  <2> QED BY <2>1, <2>3
<1>6. CASE AdcArmBegin
  <2>1. CASE OneStep(w)
    BY <1>1, <1>2, <1>4, <2>1
  <2>2. CASE ~OneStep(w)
    <3> DEFINE g == AdcDisarm(w)
               die == g.die \/ pde.running
               e == [g EXCEPT !.die = die]
    <3>1. /\ pde' = e /\ call' = [Idle EXCEPT !.at = "armWait"]
          /\ UNCHANGED <<scans, fault, hist>>
      BY <1>6, <2>2 DEF AdcArmBegin, w
    <3>2. IsPde(g) /\ SamePlace(w, g) /\ g.toMove = 0 /\ SameSearch(w, g)
      BY <1>2, DisarmType, DisarmPlace, DisarmSearch, DisarmFields
    <3> HIDE DEF g, die
    <3>3. SamePlace(g, e) /\ e.toMove = g.toMove /\ SameSearch(g, e)
      BY <3>2, SMTT(30) DEF SamePlace, SameSearch, IsPde, Flags, Counts, Others
    <3> HIDE DEF e
    <3>4. Fine(e)
      BY <1>3, <3>2, <3>3 DEF SamePlace, SameSearch
    <3>5. call'.at = "armWait" /\ call'.n = 0
      BY <3>1 DEF Idle
    <3> QED BY <1>1, <3>1, <3>4, <3>5 DEF Fine
  <2> QED BY <2>1, <2>2
<1>7. CASE AdcDisarmCall
  <2> DEFINE e == AdcDisarm(w)
  <2>1. Fine(e)
    BY <1>2, <1>3, DisarmPlace, DisarmSearch, DisarmFields
  <2>2. OneStep(e)
    BY <1>7 DEF AdcDisarmCall, w
  <2> HIDE DEF e
  <2> QED BY <1>1, <1>4, <2>1, <2>2
<1>8. CASE AdcStopCall
  <2> DEFINE e == AdcStop(w)
  <2>1. Fine(e)
    BY <1>2, <1>3, StopPlace, StopSearch, StopFields
  <2>2. OneStep(e)
    BY <1>8 DEF AdcStopCall, w
  <2> HIDE DEF e
  <2> QED BY <1>1, <1>4, <2>1, <2>2
<1>9. CASE AdcGetStatus
  <2> DEFINE e == [w EXCEPT !.error = "None"]
  <2>1. SamePlace(w, e) /\ e.toMove = w.toMove /\ SameSearch(w, e)
    BY <1>2, SMTT(30) DEF SamePlace, SameSearch, IsPde, Flags, Counts, Others
  <2>2. OneStep(e)
    BY <1>9 DEF AdcGetStatus, w
  <2> HIDE DEF e
  <2> QED BY <1>1, <1>3, <1>4, <2>1, <2>2
<1>10. CASE AdcStartBegin
  <2>1. CASE OneStep(w)
    BY <1>1, <1>2, <1>4, <2>1
  <2>2. CASE ~OneStep(w)
    <3>1. /\ pde' = [w EXCEPT !.userOpen = TRUE] /\ call' = [Idle EXCEPT !.at = "startOpen"]
          /\ UNCHANGED <<scans, fault, hist>>
      BY <1>10, <2>2 DEF AdcStartBegin, w
    <3>2. SamePlace(w, pde') /\ pde'.toMove = w.toMove /\ SameSearch(w, pde')
      BY <1>2, <3>1, SMTT(30) DEF SamePlace, SameSearch, IsPde, Flags, Counts, Others
    <3>3. Fine(pde')
      BY <1>3, <3>2
    <3>4. call'.at = "startOpen" /\ call'.n = 0
      BY <3>1 DEF Idle
    <3> QED BY <1>1, <3>1, <3>3, <3>4 DEF Fine
  <2> QED BY <2>1, <2>2
<1>11. CASE AdcSoftTrigScan
  <2>1. CASE OneStep(w)
    BY <1>1, <1>2, <1>4, <2>1
  <2>2. CASE ~OneStep(w)
    <3>1. PICK lag \in 0..FifoScans :
            LET r == ReadAcqScanCounter(w, lag)
            IN  pde' = [r EXCEPT !.trigScan = IF r.event = "TRIGGER" THEN r.read ELSE @,
                                 !.stopScan = IF r.event = "STOP" THEN r.read ELSE @]
      BY <1>11, <2>2 DEF AdcSoftTrigScan, w
    <3>2. call' = [Idle EXCEPT !.at = "trigFlag", !.event = pde.event]
          /\ UNCHANGED <<scans, fault, hist>>
      BY <1>11, <2>2 DEF AdcSoftTrigScan, w
    <3>3. lag \in Nat
      BY SizesAssumption
    <3>4. SamePlace(w, pde') /\ pde'.toMove = w.toMove /\ SameSearch(w, pde')
      BY <1>1, <1>2, <3>1, <3>3, ReadPlace
    <3>5. Fine(pde')
      BY <1>3, <3>4
    <3>6. call'.at = "trigFlag" /\ call'.n = 0
      BY <3>2 DEF Idle
    <3> QED BY <1>1, <3>2, <3>5, <3>6 DEF Fine
  <2> QED BY <2>1, <2>2
<1> QED BY <1>5, <1>6, <1>7, <1>8, <1>9, <1>10, <1>11 DEF Program
-----------------------------------------------------------------------------
(* Steps that keep the buffer in order.                                    *)
LEMMA ContentCarried ==
  ASSUME IsPde(pde), IsPde(pde'), Content(pde), Over(pde, pde'), pde'.event = pde.event,
         call.at # "startAdvance", call'.at # "startAdvance",
         scans \in Nat, scans' \in Nat, scans <= scans', call.n \in Int, call'.n \in Int,
         pde'.toMove + call'.n <= pde.toMove + call.n
  PROVE  Content(pde)'
<1>1. Placed(pde)'
  BY DEF Content, Placed, Over
<1>2. Present(pde)'
  <2>1. /\ pde.first \in Int /\ pde.sent \in Int /\ pde.toMove \in Int /\ pde'.toMove \in Int
    BY DEF IsPde, Counts
  <2> QED BY <2>1 DEF Content, Present, Over
<1>3. ASSUME ~pde'.stale PROVE Filled(pde)'
  <2>1. Filled(pde)
    BY <1>3 DEF Content, Over, Moving
  <2>2. ASSUME NEW p \in Int PROVE p % pde.size \in Cells
    <3>1. pde.size \in Nat \ {0} /\ pde.size <= InBufScans /\ InBufScans \in Nat
      BY SizesAssumption DEF IsPde
    <3>2. p % pde.size \in 0..(pde.size - 1)
      BY <3>1, <2>2, ModParts
    <3> QED BY <3>1, <3>2 DEF Cells
  <2>3. ASSUME NEW j \in 1..pde'.inUser, j <= pde'.size
        PROVE  LET p == (pde'.userHead - j) % pde'.size
                   k == pde'.first + pde'.sent - j
               IN  pde'.buf[p] = k \/ (p < ArgScans /\ pde'.buf[p] = Arg)
    <3> DEFINE p == (pde.userHead - j) % pde.size
               k == pde.first + pde.sent - j
    <3>1. pde'.userHead = pde.userHead /\ pde'.size = pde.size /\ pde'.inUser = pde.inUser
          /\ pde'.sent = pde.sent /\ pde'.first = pde.first
      BY DEF Over
    <3>2. pde.buf[p] = k \/ (p < ArgScans /\ pde.buf[p] = Arg)
      BY <2>1, <2>3, <3>1 DEF Filled
    <3>3. p \in Cells
      <4>1. pde.userHead - j \in Int
        BY <2>3, SizesAssumption DEF IsPde, Cells
      <4> QED BY <2>2, <4>1
    <3> HIDE DEF p, k
    <3>4. pde'.buf[p] = pde.buf[p] \/ (p < ArgScans /\ pde'.buf[p] = Arg)
      BY <3>3 DEF Over
    <3>5. pde'.buf[p] = k \/ (p < ArgScans /\ pde'.buf[p] = Arg)
      BY <3>2, <3>4
    <3> QED BY <3>1, <3>5 DEF p, k
  <2> QED BY <2>3 DEF Filled
<1> QED BY <1>1, <1>2, <1>3 DEF Content, Moving

LEMMA ContentUnmoved ==
  ASSUME IsPde(pde), IsPde(pde'), Content(pde'), call' = call, call.n \in Int,
         scans \in Nat, scans' \in Nat, scans <= scans'
  PROVE  Content(pde)'
<1>1. Placed(pde)'
  BY DEF Content, Placed
<1>2. Present(pde)'
  <2>1. /\ pde'.first \in Int /\ pde'.sent \in Int /\ pde'.toMove \in Int
    BY DEF IsPde, Counts
  <2> QED BY <2>1 DEF Content, Present
<1>3. ~pde'.stale => Filled(Moving(pde))'
  BY DEF Content, Filled, Moving, Advance
<1> QED BY <1>1, <1>2, <1>3 DEF Content

LEMMA ProgramContent ==
  ASSUME DInv, IInv', ~hist.raced, Content(pde), Program
  PROVE  Content(pde)'
<1>1. /\ IInv /\ IsPde(pde) /\ IsPde(pde') /\ scans \in Nat /\ call \in Calls /\ Ledger(pde)
  BY DEF DInv, IInv, TypeOK, Calls
<1>2. /\ scans' = scans /\ call.at = "none" /\ (call' = call \/ call'.n = 0)
      /\ call'.at # "startAdvance"
      /\ SameSearch(pde, pde') /\ Over(pde, pde')
  BY <1>1, ProgramPlaces
<1>3. call.n = 0 /\ call'.n = 0 /\ pde'.event = pde.event
  BY <1>1, <1>2 DEF Ledger, Held, Holding, SameSearch
<1>4. pde.toMove \in Int /\ pde.toMove >= 0
  BY <1>1 DEF Ledger, Held, IsPde, Counts
<1>5. pde'.toMove + call'.n <= pde.toMove + call.n
  BY <1>2, <1>3, <1>4 DEF Over
<1> QED BY <1>1, <1>2, <1>3, <1>5, ContentCarried

(* adcStart makes the user's buffer a new one.                             *)
LEMMA ActivePlaces ==
  ASSUME IInv, AdcStartActive
  PROVE  /\ scans' = scans /\ hist' = hist /\ call.at = "startOpen"
         /\ call' = [call EXCEPT !.at = "startTake"]
         /\ SameSearch(pde, pde') /\ pde'.size \in 1..InBufScans
         /\ pde'.inUser = 0 /\ pde'.userHead = 0 /\ pde'.sent = pde.sent
         /\ pde'.first = pde.first /\ pde'.head = pde.head /\ pde'.toMove = pde.toMove
<1>1. IsPde(pde)
  BY DEF IInv, TypeOK
<1>2. PICK t \in Transfers :
        pde' = [pde EXCEPT !.size = t.size, !.cyclic = t.cyclic, !.userHead = 0,
                  !.inUser = 0, !.transferActive = TRUE]
  BY DEF AdcStartActive
<1>3. t.size \in 1..InBufScans
  BY RequestsAssumption
<1>4. SameSearch(pde, pde')
  BY <1>1, <1>2, SMTT(30) DEF SameSearch, IsPde, Flags, Counts, Others
<1>5. /\ pde'.inUser = 0 /\ pde'.userHead = 0 /\ pde'.sent = pde.sent
      /\ pde'.first = pde.first /\ pde'.head = pde.head /\ pde'.toMove = pde.toMove
      /\ pde'.size = t.size
  BY <1>1, <1>2, SMTT(30) DEF IsPde, Flags, Counts, Others
<1> QED BY <1>3, <1>4, <1>5 DEF AdcStartActive

LEMMA ActiveContent ==
  ASSUME DInv, ~hist.raced, Content(pde), AdcStartActive
  PROVE  Content(pde)'
<1>1. IInv /\ IsPde(pde) /\ call \in Calls /\ Ledger(pde)
  BY DEF DInv, IInv, TypeOK, Calls
<1>2. /\ scans' = scans /\ call.at = "startOpen"
      /\ call' = [call EXCEPT !.at = "startTake"]
      /\ SameSearch(pde, pde') /\ pde'.size \in 1..InBufScans
      /\ pde'.inUser = 0 /\ pde'.userHead = 0 /\ pde'.sent = pde.sent
      /\ pde'.first = pde.first /\ pde'.head = pde.head /\ pde'.toMove = pde.toMove
  BY <1>1, ActivePlaces
<1>3. call.n = 0 /\ call'.n = 0 /\ call'.at = "startTake" /\ pde'.event = pde.event
  BY <1>1, <1>2 DEF Ledger, Held, Holding, SameSearch, Calls
<1>4. pde.sent \in Int /\ pde.sent >= 0
  BY <1>1 DEF Ledger, Held, IsPde, Counts
<1>5. Placed(pde)'
  BY <1>2, <1>3, <1>4, SizesAssumption DEF Content, Placed
<1>6. Present(pde)'
  BY <1>2, <1>3 DEF Content, Present
<1>7. Filled(pde)'
  BY <1>2 DEF Filled
<1> QED BY <1>3, <1>5, <1>6, <1>7 DEF Content, Moving

LEMMA BoardContent ==
  ASSUME IInv, IInv', Content(pde), Board
  PROVE  Content(pde)'
<1>1. /\ IsPde(pde) /\ IsPde(pde') /\ scans \in Nat /\ scans' \in Nat /\ call \in Calls
      /\ call' = call /\ scans <= scans'
  BY DEF IInv, TypeOK, Calls, Board, BoardScan, BoardTrigger, BoardFault
<1>2. SamePlace(pde, pde') /\ pde'.event = pde.event /\ pde'.toMove = pde.toMove
  <2>1. CASE BoardTrigger
    <3>1. pde' = [pde EXCEPT !.pacer = "on"]
      BY <2>1 DEF BoardTrigger
    <3> QED BY <1>1, <3>1, SMTT(30) DEF SamePlace, IsPde, Flags, Counts, Others
  <2>2. CASE pde' = pde
    BY <2>2 DEF SamePlace
  <2> QED BY <2>1, <2>2 DEF Board, BoardScan, BoardFault
<1>3. pde'.toMove <= pde.toMove /\ call.n \in Int
  BY <1>1, <1>2 DEF IsPde, Counts, Calls
<1>4. Content(pde')
  BY <1>1, <1>2, <1>3, ContentKept
<1> QED BY <1>1, <1>3, <1>4, ContentUnmoved

(* The timer callback.                                                     *)
LEMMA TimerContent ==
  ASSUME DInv, IInv', AdcEventL, ~hist'.raced, Content(pde)
  PROVE  Content(pde)'
<1>1. /\ IsPde(pde) /\ IsPde(pde') /\ scans \in Nat /\ fault \in BOOLEAN /\ call \in Calls
      /\ hist \in [raced: BOOLEAN, arms: Nat,
                   armed: [source: Sources, stop: StopSources, pre: Nat, post: Nat]]
      /\ call.n \in Int
  BY DEF DInv, IInv, TypeOK, Calls
<1>2. /\ scans' = scans /\ call' = call /\ ~hist.raced /\ ~Harmful(pde')
  <2>1. hist' = [hist EXCEPT !.raced = hist.raced \/ Harmful(pde')]
        /\ UNCHANGED <<scans, fault, call>>
    BY DEF AdcEventL
  <2>2. hist'.raced = (hist.raced \/ Harmful(pde'))
    BY <1>1, <2>1
  <2> QED BY <2>1, <2>2
<1>3. Ledger(pde) /\ Flagging(pde)
  BY <1>2 DEF DInv
<1>4. CASE pde.die \/ ~pde.dma
  <2>1. pde' = [pde EXCEPT !.running = FALSE]
    BY <1>4 DEF AdcEventL
  <2>2. SamePlace(pde, pde') /\ pde'.event = pde.event /\ pde'.toMove = pde.toMove
    BY <1>1, <2>1, SMTT(30) DEF SamePlace, IsPde, Flags, Counts, Others
  <2>3. pde'.toMove <= pde.toMove
    BY <1>1, <2>2 DEF IsPde, Counts
  <2>4. Content(pde')
    BY <1>1, <2>2, <2>3, ContentKept
  <2> QED BY <1>1, <1>2, <2>4, ContentUnmoved
<1>5. CASE ~pde.die /\ pde.dma
  <2>1. PICK lag \in 0..FifoScans :
          LET d == CheckEventsAndMoveData(pde, lag) IN pde' = [d EXCEPT !.running = d.dma]
    BY <1>5 DEF AdcEventL
  <2> DEFINE d == CheckEventsAndMoveData(pde, lag)
  <2>2. Running
    BY <1>1, <1>3, <1>5 DEF Running
  <2>3. lag \in Nat
    BY SizesAssumption
  <2>4. IsPde(d)
    BY <1>1, <2>3, CallbackType
  <2>5. Harmful(d) \/ Content(d)
    BY <2>2, <2>3, CallbackContent
  <2>6. pde' = [d EXCEPT !.running = d.dma]
    BY <2>1
  <2> HIDE DEF d
  <2>7. /\ Alike(d, pde') /\ SamePlace(d, pde')
    BY <2>4, <2>6, SMTT(30) DEF Alike, SameEvents, SameCounter, SameRequest, SameTransfer,
                                SamePlace, IsPde, Flags, Counts, Others
  <2>8. ~Harmful(d)
    BY <1>2, <2>7, AlikeLedger
  <2>9. Content(pde')
    <3>1. Content(d) /\ pde'.event = d.event /\ pde'.toMove = d.toMove
      BY <2>5, <2>7, <2>8 DEF Alike, SameEvents, SameTransfer
    <3>2. Placed(pde') /\ Present(pde')
      BY <2>7, <3>1 DEF Content, Placed, Present, SamePlace
    <3>3. ~pde'.stale => Filled(Moving(pde'))
      BY <1>1, <2>4, <2>7, <3>1, MovingKeeps DEF Content, SamePlace
    <3> QED BY <3>2, <3>3 DEF Content
  <2> QED BY <1>1, <1>2, <2>9, ContentUnmoved
<1> QED BY <1>1, <1>4, <1>5 DEF IsPde, Flags
LEMMA RearmedPlace ==
  ASSUME NEW d, IsPde(d)
  PROVE  LET e == Rearmed(d)
         IN  /\ e.userHead = d.userHead /\ e.size = d.size /\ e.search = d.pre % RingScans
             /\ e.inUser = 0 /\ e.sent = 0 /\ e.current = 0 /\ e.event = "TRIGGER"
             /\ SameRequest(d, e)
<1> DEFINE s == d.pre % RingScans
<1>1. Rearmed(d) =
        [d EXCEPT !.event = "TRIGGER", !.trigCount = d.pre, !.stopCount = d.post,
            !.trigSw = FALSE, !.trigHw = FALSE, !.stopSw = FALSE,
            !.read = 0, !.current = 0, !.last = 0, !.lastPass = 0,
            !.toMove = 0, !.inUser = 0, !.head = 0, !.search = s,
            !.sent = 0, !.dropped = 0, !.stale = FALSE]
  BY DEF Rearmed
<1> HIDE DEF s
<1>2. /\ Rearmed(d).userHead = d.userHead /\ Rearmed(d).size = d.size
      /\ Rearmed(d).search = s
  BY <1>1, SMTT(30) DEF IsPde, Flags, Counts, Others
<1> QED BY <1>2, RearmedFields DEF s

(* adcArm, once the old timer is gone.                                     *)
LEMMA ArmPlaces ==
  ASSUME IInv, AdcArmInitFailure \/ AdcArmDone
  PROVE  /\ pde'.userHead = pde.userHead /\ pde'.size = pde.size
         /\ pde'.search = pde.pre % RingScans /\ pde'.current = 0
         /\ pde'.inUser = 0 /\ pde'.sent = 0 /\ pde'.event = "TRIGGER"
         /\ pde'.pre = pde.pre
         /\ call' = Idle /\ scans' = 0
<1> DEFINE r == Rearmed(pde)
<1>1. IsPde(pde)
  BY DEF IInv, TypeOK
<1>2. /\ IsPde(r) /\ r.userHead = pde.userHead /\ r.size = pde.size
      /\ r.search = pde.pre % RingScans
      /\ r.inUser = 0 /\ r.sent = 0 /\ r.current = 0 /\ r.event = "TRIGGER"
      /\ r.pre = pde.pre
  BY <1>1, RearmedType, RearmedPlace DEF SameRequest
<1>3. CASE AdcArmInitFailure
  <2>1. pde' = AdcDisarm(r) /\ call' = Idle /\ scans' = 0
    BY <1>3 DEF AdcArmInitFailure
  <2> HIDE DEF r
  <2>2. SamePlace(r, pde') /\ SameEvents(r, pde') /\ SameCounter(r, pde')
        /\ pde'.search = r.search /\ pde'.pre = r.pre
    BY <1>2, <2>1, DisarmPlace, DisarmFields
  <2> QED BY <1>2, <2>1, <2>2 DEF SamePlace, SameEvents, SameCounter
<1>4. CASE AdcArmDone
  <2> DEFINE p == IF pde.source = "Hardware" THEN "waiting" ELSE "on"
  <2>1. /\ pde' = [r EXCEPT !.pacer = p, !.dma = TRUE, !.acqActive = TRUE, !.error = "None",
                            !.running = TRUE, !.die = FALSE]
        /\ call' = Idle /\ scans' = 0
    BY <1>4 DEF AdcArmDone
  <2> HIDE DEF r, p
  <2>2. /\ pde'.userHead = r.userHead /\ pde'.size = r.size /\ pde'.search = r.search
        /\ pde'.inUser = r.inUser /\ pde'.sent = r.sent /\ pde'.current = r.current
        /\ pde'.event = r.event /\ pde'.pre = r.pre
    BY <1>2, <2>1, SMTT(30) DEF IsPde, Flags, Counts, Others
  <2> QED BY <1>2, <2>1, <2>2
<1> QED BY <1>3, <1>4

LEMMA ArmContent ==
  ASSUME IInv, Content(pde), AdcArmInitFailure \/ AdcArmDone
  PROVE  Content(pde)'
<1>1. /\ pde'.userHead = pde.userHead /\ pde'.size = pde.size
      /\ pde'.inUser = 0 /\ pde'.sent = 0 /\ pde'.event = "TRIGGER" /\ call' = Idle
  BY ArmPlaces
<1>2. Placed(pde)' /\ Present(pde)'
  BY <1>1 DEF Content, Placed, Present
<1>3. Filled(pde)'
  BY <1>1 DEF Filled
<1> QED BY <1>1, <1>2, <1>3 DEF Content, Moving, Idle

(* adcStart's copyNewScans: the memcpy, up to the moves of the heads.      *)
LEMMA StartCopyContent ==
  ASSUME DInv, IInv', ~hist.raced, Content(pde), AdcStartCopy
  PROVE  Content(pde)'
<1> DEFINE n == call.n
           m == Room(pde, n)
<1>1. /\ IsPde(pde) /\ IsPde(pde') /\ Ledger(pde) /\ call.at = "startCopy" /\ scans \in Nat
      /\ call \in Calls /\ call' \in Calls /\ scans' = scans
  BY DEF DInv, IInv, TypeOK, AdcStartCopy, Calls
<1>2. /\ n \in Nat /\ pde.event # "TRIGGER" /\ pde.toMove >= 0 /\ pde.sent >= 0
      /\ pde.inUser >= 0
      /\ pde.transferActive => pde.toMove = 0 /\ pde.userOpen
      /\ ~pde.cyclic => pde.inUser <= pde.size
  BY <1>1 DEF Ledger, Held, Holding, Calls
<1>3. /\ pde.toMove \in Int /\ pde.inUser \in Int /\ pde.size \in Int /\ pde.sent \in Int
      /\ pde.first \in Int
  BY <1>1 DEF IsPde, Counts
<1>4. m \in Nat /\ m <= n
  BY <1>2, <1>3 DEF Room, Fills
<1>5. CASE ~pde.transferActive
  <2>1. /\ pde' = [pde EXCEPT !.toMove = pde.toMove + n]
        /\ call' = [call EXCEPT !.at = "startEnd", !.n = 0]
    BY <1>5 DEF AdcStartCopy
  <2>2. call'.at = "startEnd" /\ call'.n = 0
    BY <1>1, <2>1 DEF Calls
  <2>3. SamePlace(pde, pde') /\ pde'.event = pde.event /\ pde'.toMove = pde.toMove + n
    BY <1>1, <2>1, SMTT(30) DEF SamePlace, IsPde, Flags, Counts, Others
  <2>4. Placed(pde)'
    BY <2>3 DEF Content, Placed, SamePlace
  <2>5. Present(pde)'
    BY <1>1, <1>2, <1>3, <2>2, <2>3 DEF Content, Present, SamePlace
  <2>6. ~pde'.stale => Filled(pde)'
    BY <1>1, <2>3, SamePlaceKeeps DEF Content, SamePlace, Moving, Filled
  <2> QED BY <2>2, <2>4, <2>5, <2>6 DEF Content, Moving
<1>6. CASE pde.transferActive
  <2> DEFINE kept == IF Fills(pde, n) THEN [pde EXCEPT !.toMove = n - m] ELSE pde
             e == Advance(MemCopy(kept, m), m)
  <2>1. /\ pde' = MemCopy(kept, m)
        /\ call' = [call EXCEPT !.at = "startAdvance", !.n = m, !.full = Fills(pde, n)]
    BY <1>2, <1>4, <1>6 DEF AdcStartCopy, OutOfBounds
  <2>0. (~Fills(pde, n) => m = n)
    BY DEF Room
  <2> HIDE DEF n, m
  <2>2. call'.at = "startAdvance" /\ call'.n = m
    BY <1>1, <2>1 DEF Calls
  <2>3. /\ IsPde(kept) /\ SamePlace(pde, kept) /\ kept.event = pde.event
        /\ kept.toMove = (IF Fills(pde, n) THEN n - m ELSE 0)
    <3>1. n - m \in Int
      BY <1>2, <1>4
    <3> QED BY <1>1, <1>2, <1>6, <3>1, SMTT(30)
            DEF SamePlace, IsPde, Flags, Counts, Others
  <2> HIDE DEF kept
  <2>4. InPlace(kept)
    <3>1. InPlace(pde)
      BY <1>1, <1>2 DEF Content, Placed, Moving, InPlace
    <3> QED BY <2>3, <3>1, SamePlaceKeeps
  <2>5. 0 <= pde.first /\ pde.first + pde.sent + n <= scans + 1
    BY <1>1, <1>2, <1>3, <1>6 DEF Content, Present, n
  <2>6. Owes(kept, m)
    BY <1>1, <1>2, <1>3, <1>4, <2>3, <2>5 DEF Owes, NextWanted, SamePlace
  <2>7. InPlace(e)
    BY <1>1, <1>4, <2>3, <2>4, <2>6, MovePlaces
  <2>8. SameTransfer(kept, pde') /\ pde'.event = kept.event
        /\ pde'.head = kept.head /\ pde'.userHead = kept.userHead
    <3>1. m \in Int
      BY <1>4
    <3> QED BY <1>1, <2>1, <2>3, <3>1, MemCopyPlace, MemCopyFields DEF SameEvents
  <2>9. e = Advance(pde', m)
    BY <2>1
  <2> HIDE DEF e
  <2>10. Placed(pde)'
    BY <2>4, <2>8 DEF InPlace, Placed, SameTransfer
  <2>11. Present(pde)'
    <3>1. /\ pde'.first = pde.first /\ pde'.sent = pde.sent
          /\ pde'.toMove = (IF Fills(pde, n) THEN n - m ELSE 0)
      BY <2>3, <2>8 DEF SamePlace, SameTransfer
    <3>2. pde'.toMove + call'.n = n
      BY <1>2, <1>4, <2>0, <2>2, <3>1
    <3>3. n \in Int /\ pde'.toMove \in Int /\ call'.n \in Int /\ scans \in Int
      BY <1>1, <1>2 DEF IsPde, Counts, Calls
    <3>4. pde'.first + pde'.sent + pde'.toMove + call'.n <= scans + 1
      BY <1>3, <2>5, <3>1, <3>2, <3>3
    <3> QED BY <1>1, <2>5, <3>1, <3>4 DEF Present
  <2>12. e.stale = pde'.stale
    BY <1>1, <1>4, <2>9, AdvanceFields
  <2>13. ~pde'.stale => Filled(Moving(pde))'
    BY <2>2, <2>7, <2>9, <2>12 DEF InPlace, Moving, Filled, Advance
  <2> QED BY <2>10, <2>11, <2>13 DEF Content
<1> QED BY <1>5, <1>6
LEMMA StartContent ==
  ASSUME DInv, IInv', ~hist.raced, Content(pde), AdcStartTake \/ AdcStartAdvance \/ AdcStartEnd
  PROVE  Content(pde)'
<1>1. /\ IsPde(pde) /\ IsPde(pde') /\ Ledger(pde) /\ call \in Calls /\ call' \in Calls
      /\ scans \in Nat /\ scans' = scans
  BY DEF DInv, IInv, TypeOK, AdcStartTake, AdcStartAdvance, AdcStartEnd, Calls
<1>2. /\ pde.toMove \in Int /\ pde.toMove >= 0 /\ call.n \in Nat /\ (~Holding => call.n = 0)
      /\ pde'.toMove \in Int /\ call'.n \in Int
  BY <1>1 DEF Ledger, Held, IsPde, Counts, Calls
<1>3. ASSUME SamePlace(pde, pde'), pde'.event = pde.event,
             call.at # "startAdvance", call'.at # "startAdvance",
             pde'.toMove + call'.n <= pde.toMove + call.n,
             pde'.toMove = pde.toMove \/ pde'.toMove = 0
      PROVE  Content(pde)'
  <2>1. Over(pde, pde')
    BY <1>3 DEF Over, SamePlace
  <2> QED BY <1>1, <1>2, <1>3, <2>1, ContentCarried
<1>4. CASE AdcStartTake
  <2>1. call.at = "startTake" /\ call.n = 0
    BY <1>2, <1>4 DEF AdcStartTake, Holding
  <2>2. CASE pde.toMove = 0
    <3>1. pde' = pde /\ call'.at = "none" /\ call'.n = 0
      BY <1>4, <2>2 DEF AdcStartTake, Idle
    <3>2. SamePlace(pde, pde')
      BY <3>1 DEF SamePlace
    <3> QED BY <1>2, <1>3, <2>1, <3>1, <3>2
  <2>3. CASE pde.toMove # 0
    <3>1. /\ pde' = [pde EXCEPT !.toMove = 0]
          /\ call' = [call EXCEPT !.at = "startCopy", !.n = pde.toMove]
      BY <1>4, <2>3 DEF AdcStartTake
    <3>2. call'.at = "startCopy" /\ call'.n = pde.toMove
      BY <1>1, <3>1 DEF Calls
    <3>3. SamePlace(pde, pde') /\ pde'.event = pde.event /\ pde'.toMove = 0
      BY <1>1, <3>1, SMTT(30) DEF SamePlace, IsPde, Flags, Counts, Others
    <3> QED BY <1>2, <1>3, <2>1, <3>2, <3>3
  <2> QED BY <2>2, <2>3
<1>5. CASE AdcStartAdvance
  <2> DEFINE d == Advance(pde, call.n)
  <2>1. /\ pde' = (IF call.full THEN AdcStop(d) ELSE d) /\ call.at = "startAdvance"
        /\ call' = [call EXCEPT !.at = "startEnd", !.n = 0]
    BY <1>1, <1>2, <1>5 DEF AdcStartAdvance, OutOfBounds, Ledger, Held
  <2>2. call'.at = "startEnd" /\ call'.n = 0
    BY <1>1, <2>1 DEF Calls
  <2>3. /\ pde.event # "TRIGGER" /\ pde.userHead < pde.size /\ pde.inUser <= pde.sent
        /\ pde.head = (pde.first + pde.sent - 1) % RingScans
    BY <1>1, <2>1 DEF Ledger, Held, Holding, Content, Placed
  <2>4. /\ IsPde(d) /\ d.userHead < d.size /\ d.inUser <= d.sent
        /\ d.head = (d.first + d.sent - 1) % RingScans
        /\ d.stale = pde.stale
    <3>1. call.n \in Nat /\ call.n \in Int
      BY <1>2
    <3>2. IsPde(d)
      BY <1>1, <3>1, AdvanceType
    <3>3. /\ d.userHead < d.size /\ d.inUser <= d.sent
          /\ d.head = (d.first + d.sent - 1) % RingScans /\ d.stale = pde.stale
      BY <1>1, <2>3, <3>1, AdvancePlaces
    <3> QED BY <3>2, <3>3
  <2>5. /\ d.event = pde.event /\ d.toMove = pde.toMove /\ d.first = pde.first
        /\ d.sent = pde.sent + call.n
    BY <1>1, <1>2, AdvanceFields DEF SameEvents
  <2>6. ~d.stale => Filled(d)
    BY <2>1, <2>4 DEF Content, Moving
  <2> HIDE DEF d
  <2>7. SamePlace(d, pde') /\ pde'.event = d.event /\ pde'.toMove = d.toMove
    BY <2>1, <2>4, StopPlace, StopFields DEF SamePlace, SameEvents
  <2>8. Placed(pde)'
    BY <2>4, <2>7 DEF Placed, SamePlace
  <2>9. Present(pde)'
    <3>1. pde.first \in Int /\ pde.sent \in Int
      BY <1>1 DEF IsPde, Counts
    <3>2. 0 <= pde.first /\ pde.first + pde.sent + pde.toMove + call.n <= scans + 1
      BY <2>3 DEF Content, Present
    <3>3. pde'.first = pde.first /\ pde'.sent = pde.sent + call.n /\ pde'.toMove = pde.toMove
      BY <2>5, <2>7 DEF SamePlace
    <3> QED BY <1>1, <1>2, <2>2, <3>1, <3>2, <3>3 DEF Present
  <2>10. ~pde'.stale => Filled(pde)'
    BY <2>4, <2>6, <2>7, SamePlaceKeeps DEF SamePlace, Filled
  <2> QED BY <2>2, <2>8, <2>9, <2>10 DEF Content, Moving
<1>6. CASE AdcStartEnd
  <2>1. /\ pde' \in {pde, AdcStop(pde)} /\ call'.at = "none" /\ call'.n = 0
        /\ call.at = "startEnd"
    BY <1>6 DEF AdcStartEnd, Idle
  <2>2. SamePlace(pde, pde') /\ pde'.event = pde.event /\ pde'.toMove = pde.toMove
    BY <1>1, <2>1, StopPlace, StopFields DEF SamePlace, SameEvents
  <2> QED BY <1>2, <1>3, <2>1, <2>2
<1> QED BY <1>4, <1>5, <1>6

(* The second store of adcSoftTrig, and an adcArm that gives up.           *)
LEMMA FlagPlaces ==
  ASSUME IInv, AdcSoftTrigFlag
  PROVE  /\ SamePlace(pde, pde') /\ pde'.toMove = pde.toMove /\ SameSearch(pde, pde')
         /\ call' = Idle /\ scans' = scans /\ hist' = hist
<1>1. IsPde(pde)
  BY DEF IInv, TypeOK
<1>2. PICK e \in {call.event, pde.event} :
        pde' = [pde EXCEPT !.trigSw = pde.trigSw \/ e = "TRIGGER",
                           !.stopSw = pde.stopSw \/ e = "STOP"]
  BY DEF AdcSoftTrigFlag
<1> DEFINE tsw == pde.trigSw \/ e = "TRIGGER"
           ssw == pde.stopSw \/ e = "STOP"
<1>3. pde' = [pde EXCEPT !.trigSw = tsw, !.stopSw = ssw] /\ (pde.trigSw => tsw)
  BY <1>2
<1> HIDE DEF tsw, ssw
<1>4. SamePlace(pde, pde') /\ pde'.toMove = pde.toMove /\ SameSearch(pde, pde')
  BY <1>1, <1>3, SMTT(30) DEF SamePlace, SameSearch, IsPde, Flags, Counts, Others
<1> QED BY <1>4 DEF AdcSoftTrigFlag

LEMMA RestContent ==
  ASSUME DInv, IInv', ~hist.raced, Content(pde), AdcArmTimeout \/ AdcSoftTrigFlag
  PROVE  Content(pde)'
<1>1. /\ IsPde(pde) /\ IsPde(pde') /\ scans \in Nat /\ scans' = scans
      /\ call \in Calls /\ call' = Idle /\ call.at \in {"armWait", "trigFlag"}
  BY DEF DInv, IInv, TypeOK, AdcArmTimeout, AdcSoftTrigFlag, Calls
<1>2. SamePlace(pde, pde') /\ pde'.toMove = pde.toMove /\ pde'.event = pde.event
  <2>1. CASE AdcArmTimeout
    BY <2>1 DEF AdcArmTimeout, SamePlace
  <2>2. CASE AdcSoftTrigFlag
    BY <2>2, FlagPlaces DEF SameSearch, DInv
  <2> QED BY <2>1, <2>2
<1>3. call.n = 0 /\ call'.n = 0 /\ call'.at = "none"
  BY <1>1 DEF DInv, Ledger, Held, Holding, Idle
<1>4. Over(pde, pde') /\ pde'.toMove + call'.n <= pde.toMove + call.n
  BY <1>1, <1>2, <1>3 DEF Over, SamePlace, IsPde, Counts
<1> QED BY <1>1, <1>2, <1>3, <1>4, ContentCarried
-----------------------------------------------------------------------------
LEMMA InitContentInv == Init => ContentInv
<1> SUFFICES ASSUME Init PROVE ContentInv
  OBVIOUS
<1>1. /\ pde.userHead = 0 /\ pde.size = 1 /\ pde.inUser = 0 /\ pde.sent = 0
      /\ pde.event = "TRIGGER" /\ call.at = "none"
  BY SMTT(30) DEF Init, InitPde, Idle
<1>2. Content(pde)
  BY <1>1 DEF Content, Placed, Present, Filled, Moving
<1> QED BY <1>2, InitDInv DEF ContentInv

LEMMA NextContentInv == ContentInv /\ [Next]_vars => ContentInv'
<1> SUFFICES ASSUME ContentInv, [Next]_vars, ~hist'.raced PROVE Content(pde)'
  BY NextDInv DEF ContentInv
<1>1. DInv /\ DInv' /\ IInv' /\ ~hist.raced /\ Content(pde)
  BY NextDInv, RacedStays DEF ContentInv, DInv
<1>2. CASE UNCHANGED vars \/ Undefined
  <2>1. UNCHANGED vars
    BY <1>2 DEF Undefined
  <2> QED BY <1>1, <2>1 DEF vars, Content, Placed, Present, Filled, Moving, Advance
<1>3. CASE AdcEventL
  BY <1>1, <1>3, TimerContent
<1>4. CASE Program
  BY <1>1, <1>4, ProgramContent
<1>5. CASE Continue
  BY <1>1, <1>5, ArmContent, ActiveContent, StartCopyContent, StartContent, RestContent DEF Continue, DInv
<1>6. CASE Board
  BY <1>1, <1>6, BoardContent DEF DInv
<1> QED BY <1>2, <1>3, <1>4, <1>5, <1>6 DEF Next

(* The last scans delivered stand in the user's buffer in order before     *)
(* userInpBufHead, around the end of the DMA ring and of the buffer and    *)
(* however transfers and callbacks split the copies (copyNewScans,         *)
(* memCopyToUserBuf), but where an ioctl argument lies over them.          *)
THEOREM ContentStaysInOrder == Spec => []ContentInOrder
<1>1. ContentInv => ContentInOrder
  <2> SUFFICES ASSUME ContentInv, Sound, ~pde.stale, call.at # "startAdvance"
               PROVE  Filled(pde)
    BY DEF ContentInOrder, Filled
  <2> QED BY DEF ContentInv, Content, Sound, Moving
<1> QED BY <1>1, InitContentInv, NextContentInv, PTL DEF Spec
-----------------------------------------------------------------------------
(* What a callback finds, and how far it has searched.                     *)
LEMMA CopySearch ==
  ASSUME scans \in Nat, NEW d, IsPde(d), NEW n \in Nat
  PROVE  CopyNewScans(d, n).search = d.search
<1> DEFINE m == Room(d, n)
           kept == IF Fills(d, n) THEN [d EXCEPT !.toMove = n - m] ELSE d
           copied == MemCopy(kept, m)
           done == Advance(copied, m)
           e == CopyNewScans(d, n)
<1>1. m \in Int /\ n - m \in Int
  BY DEF Room, Fills, IsPde, Counts
<1>2. e \in {[d EXCEPT !.wild = TRUE], d, [d EXCEPT !.toMove = d.toMove + n],
             AdcStop(done), done}
  BY DEF CopyNewScans
<1> HIDE DEF m, e
<1>3. IsPde(kept) /\ kept.search = d.search
  BY <1>1, SMTT(30) DEF IsPde, Flags, Counts, Others
<1> HIDE DEF kept
<1>4. IsPde(copied) /\ copied.search = kept.search
  BY <1>1, <1>3, MemCopyType, MemCopyPlace
<1> HIDE DEF copied
<1>5. IsPde(done) /\ done.search = copied.search
  <2> DEFINE hd == (copied.head + m) % RingScans
             uh == (copied.userHead + m) % copied.size
  <2>1. done = [copied EXCEPT !.head = hd, !.userHead = uh,
                  !.inUser = copied.inUser + m, !.sent = copied.sent + m]
    BY DEF Advance
  <2>2. IsPde(done)
    BY <1>1, <1>4, AdvanceType
  <2> HIDE DEF hd, uh, done
  <2>3. done.search = copied.search
    BY <1>4, <2>1, SMTT(30) DEF IsPde, Flags, Counts, Others
  <2> QED BY <2>2, <2>3
<1> HIDE DEF done
<1>6. AdcStop(done).search = done.search
  BY <1>5, StopPlace
<1>7. [d EXCEPT !.wild = TRUE].search = d.search
      /\ [d EXCEPT !.toMove = d.toMove + n].search = d.search
  BY SMTT(30) DEF IsPde, Flags, Counts, Others
<1> QED BY <1>2, <1>3, <1>4, <1>5, <1>6, <1>7 DEF e

LEMMA OnTriggerSearch ==
  ASSUME scans \in Nat, NEW d, IsPde(d), ~d.cyclic => d.inUser <= d.size,
         d.transferActive => d.userOpen
  PROVE  OnTrigger(d).search = (d.trigScan + d.stopCount - 1) % RingScans
<1> DEFINE h == (d.trigScan - d.pre - 1) % RingScans
           x == [d EXCEPT !.head = h, !.first = d.trigScan - d.pre]
           g == CopyNewScans(x, d.pre)
           s == (g.trigScan + g.stopCount - 1) % RingScans
           e == OnTrigger(d)
<1>1. h \in 0..(RingScans - 1) /\ d.pre \in Nat /\ d.trigScan - d.pre \in Int
  <2>1. /\ d.trigScan - d.pre - 1 \in Int /\ RingScans \in Nat \ {0} /\ d.pre \in Nat
        /\ d.trigScan - d.pre \in Int
    BY SizesAssumption DEF IsPde, Counts
  <2>2. h \in 0..(RingScans - 1)
    BY <2>1, ModRange, Zenon
  <2> QED BY <2>1, <2>2
<1>2. e = [[g EXCEPT !.event = "STOP", !.acqTriggered = TRUE, !.search = s]
             EXCEPT !.last = d.trigScan - 1]
  BY DEF OnTrigger, SetupStopEvent
<1> HIDE DEF s, e
<1>3. /\ IsPde(x) /\ x.trigScan = d.trigScan /\ x.stopCount = d.stopCount
      /\ x.inUser = d.inUser /\ x.size = d.size /\ x.cyclic = d.cyclic
      /\ x.transferActive = d.transferActive /\ x.userOpen = d.userOpen
  <2> HIDE DEF h
  <2> QED BY <1>1, SMTT(30) DEF IsPde, Flags, Counts, Others
<1> HIDE DEF x
<1>4. IsPde(g)
  <2>1. d.pre \in Int
    BY <1>1
  <2> QED BY <1>3, <2>1, CopyNewScansType
<1>5. g.trigScan = d.trigScan /\ g.stopCount = d.stopCount
  BY <1>1, <1>3, CopyNewScansFields DEF Copied, SameEvents
<1> HIDE DEF g
<1>6. e.search = s
  BY <1>2, <1>4, SMTT(30) DEF IsPde, Flags, Counts, Others
<1> QED BY <1>5, <1>6 DEF e, s

(* Scans counted before the search begins leave it where it is.            *)
LEMMA StillBehind ==
  ASSUME NEW d, NEW e, NEW s \in Nat \ {0}, NEW from \in Nat, NEW to \in Nat,
         Searches(d, s, from), e.search = d.search, from < to, to <= AtLeast(s - 1, from)
  PROVE  Searches(e, s, to)
<1>1. AtLeast(s - 1, from) = s - 1 /\ AtLeast(s - 1, to) = s - 1
  BY DEF AtLeast
<1>2. Signal \subseteq Nat
  BY RequestsAssumption
<1> QED BY <1>1, <1>2 DEF Searches

(* The stop phase of a level stop.                                         *)
LEMMA StopSearched ==
  ASSUME scans \in Nat, NEW d, IsPde(d), NEW acquired \in Nat, Ready(d, acquired),
         d.stop = "Level", Searches(d, d.trigScan + d.post, d.last),
         scans <= AtLeast(d.trigScan + d.post - 1, d.last) + RingScans
  PROVE  LET c == CheckForStop(d, acquired)
             s == d.trigScan + d.post
         IN  /\ ~c.occurred => Searches(c.d, s, d.current)
             /\ c.occurred => /\ c.d.stopScan \in Signal /\ c.d.stopScan >= s
                              /\ \A i \in Signal : i >= s => i >= c.d.stopScan
<1> DEFINE c == CheckForStop(d, acquired)
           s == d.trigScan + d.post
           w == AtLeast(s - 1, d.last)
           n == acquired - d.stopCount
           m == d.current - w
           o == LevelOffset(d, n)
           looks == acquired >= d.stopCount
<1>1. /\ s \in Nat \ {0} /\ d.last \in Nat /\ d.current \in Nat /\ d.stopCount \in Nat
      /\ d.current = d.last + acquired /\ d.last < d.current /\ d.current <= scans
      /\ w = d.last + d.stopCount /\ w \in Nat
  <2>1. /\ d.trigScan \in Int /\ d.post \in Nat /\ d.last \in Int /\ d.current \in Int
        /\ d.read \in Int /\ d.stopCount \in Int
    BY DEF IsPde, Counts
  <2>2. /\ acquired > 0 /\ 1 <= d.trigScan /\ 0 <= d.last /\ d.last + acquired = d.current
        /\ d.current = d.read /\ d.read <= scans
        /\ d.stopCount = AtLeast(0, d.trigScan - 1 + d.post - d.last)
    BY DEF Ready
  <2>3. d.trigScan - 1 + d.post - d.last = s - 1 - d.last
    BY <2>1
  <2>4. s \in Nat \ {0}
    BY <2>1, <2>2
  <2> HIDE DEF s
  <2> QED BY <2>1, <2>2, <2>3, <2>4 DEF AtLeast
<1>2. /\ c.d.search = IF looks THEN (d.search + o) % RingScans ELSE d.search
      /\ c.occurred <=> looks /\ o < n
      /\ looks /\ o < n => c.d.stopScan = d.current - n + o + 1
  BY CheckForStopSearch
<1> HIDE DEF c
<1>3. Searches(d, s, d.last) /\ scans <= w + RingScans
  <2>1. d.trigScan + d.post - 1 = s - 1
    BY DEF IsPde, Counts
  <2> QED BY <2>1
<1>4. CASE ~looks
  <2>1. d.current <= w
    BY <1>1, <1>4
  <2> HIDE DEF s, looks
  <2>2. Searches(c.d, s, d.current)
    BY <1>1, <1>2, <1>3, <1>4, <2>1, StillBehind
  <2> QED BY <1>2, <1>4, <2>2 DEF c, s
<1>5. CASE looks
  <2>1. w <= d.current /\ n = m
    BY <1>1, <1>5
  <2> HIDE DEF s, w
  <2>2. LET p == LevelOffset(d, m)
        IN  /\ m \in Nat /\ p \in 0..m
            /\ ~(p < m) => /\ (d.search + p) % RingScans = AtLeast(s - 1, d.current) % RingScans
                           /\ \A i \in Signal : i >= s => i > d.current
            /\ p < m => /\ w + p + 1 \in Signal /\ w + p + 1 >= s
                        /\ \A i \in Signal : i >= s => i >= w + p + 1
    BY <1>1, <1>3, <2>1, SearchGoesOn DEF w
  <2>3. /\ o \in 0..m
        /\ ~(o < m) => /\ (d.search + o) % RingScans = AtLeast(s - 1, d.current) % RingScans
                       /\ \A i \in Signal : i >= s => i > d.current
        /\ o < m => /\ w + o + 1 \in Signal /\ w + o + 1 >= s
                    /\ \A i \in Signal : i >= s => i >= w + o + 1
    BY <2>1, <2>2
  <2>4. looks /\ o < n => c.d.stopScan = w + o + 1
    <3>1. o \in Int
      BY <2>2, <2>3
    <3> HIDE DEF o
    <3> QED BY <1>1, <1>2, <2>1, <3>1
  <2> HIDE DEF looks, o, n, m
  <2>5. CASE o < n
    BY <1>2, <1>5, <2>1, <2>3, <2>4, <2>5 DEF c, s
  <2>6. CASE ~(o < n)
    <3>1. Searches(c.d, s, d.current)
      BY <1>2, <1>5, <2>1, <2>3, <2>6 DEF Searches
    <3> QED BY <1>2, <2>6, <3>1 DEF c, s
  <2> QED BY <2>5, <2>6
<1> QED BY <1>4, <1>5
LEMMA StopPhaseExact ==
  ASSUME scans \in Nat, NEW d, IsPde(d), NEW acquired \in Nat, Ready(d, acquired),
         d.stop = "Level" =>
           /\ Searches(d, d.trigScan + d.post, d.last)
           /\ scans <= AtLeast(d.trigScan + d.post - 1, d.last) + RingScans
  PROVE  LET e == StopPhase(d, acquired)
         IN  /\ e.event \in {"STOP", "POSTSTOP"}
             /\ e.trigScan = d.trigScan /\ e.trigSw = d.trigSw
             /\ e.event = "POSTSTOP" => ~e.acqActive
             /\ e.event = "STOP" =>
                  /\ e.current = d.current
                  /\ e.stop = "Level" => Searches(e, e.trigScan + e.post, e.current)
             /\ StopFirst(e)
<1> DEFINE c == CheckForStop(d, acquired)
           o == c.occurred
           b == c.d
           e == StopPhase(d, acquired)
<1>1. e = IF o THEN OnStop(b) ELSE CopyNewScans(b, acquired)
  BY DEF StopPhase, Ready
<1>2. IsPde(b) /\ AlikeButStop(d, b) /\ StopFound(d, acquired, o, b)
  BY CheckForStopType, CheckForStopFields
<1>3. d.stop = "Level" =>
        /\ ~o => Searches(b, d.trigScan + d.post, d.current)
        /\ o => /\ b.stopScan \in Signal /\ b.stopScan >= d.trigScan + d.post
                /\ \A i \in Signal : i >= d.trigScan + d.post => i >= b.stopScan
  BY StopSearched
<1>4. hist.armed.stop = d.stop /\ hist.armed.post = d.post
  BY DEF Ready, Request
<1> HIDE DEF c, o, b, e
<1>5. /\ b.last = d.last /\ b.current = d.current /\ b.event = "STOP"
      /\ b.trigScan = d.trigScan /\ b.trigSw = d.trigSw
      /\ b.stop = d.stop /\ b.post = d.post
      /\ ~b.cyclic => b.inUser <= b.size
      /\ b.transferActive => b.userOpen
  BY <1>2 DEF AlikeButStop, SameTransfer, SameCounter, SameRequest, Ready
<1>6. CASE o
  <2>1. b.last <= b.stopScan
    BY <1>2, <1>5, <1>6 DEF StopFound, Ready, AtLeast, IsPde, Counts
  <2>2. /\ e.event = "POSTSTOP" /\ ~e.acqActive /\ e.trigScan = b.trigScan
        /\ e.trigSw = b.trigSw /\ e.stopScan = b.stopScan
    BY <1>1, <1>2, <1>5, <1>6, <2>1, OnStopFields DEF Finished, Quiet
  <2>3. StopFirst(e)
    BY <1>3, <1>4, <1>5, <1>6, <2>2 DEF StopFirst
  <2> QED BY <1>5, <2>2, <2>3 DEF e
<1>7. CASE ~o
  <2>1. Copied(b, e, acquired)
    BY <1>1, <1>2, <1>5, <1>7, CopyNewScansFields
  <2>2. e.search = b.search
    BY <1>1, <1>2, <1>7, CopySearch
  <2>3. /\ e.event = "STOP" /\ e.trigScan = d.trigScan /\ e.trigSw = d.trigSw
        /\ e.current = d.current /\ e.stop = d.stop /\ e.post = d.post
    BY <1>5, <2>1 DEF Copied, SameEvents, SameCounter, SameRequest
  <2>4. d.stop = "Level" => Searches(e, d.trigScan + d.post, d.current)
    BY <1>3, <1>7, <2>2 DEF Searches
  <2> QED BY <2>3, <2>4 DEF e, StopFirst
<1> QED BY <1>6, <1>7

(* The search for a level trigger.                                         *)
LEMMA TriggerSearched ==
  ASSUME scans \in Nat, NEW d, IsPde(d), NEW acquired \in Nat, acquired > 0,
         d.source = "Level", ~d.trigSw, NEW from \in Nat, d.current = from + acquired,
         d.current <= scans, d.trigCount = AtLeast(0, d.pre - from),
         Searches(d, d.pre + 1, from), scans <= from + RingScans
  PROVE  LET c == CheckForTrigger(d, acquired)
         IN  /\ ~c.occurred => Searches(c.d, d.pre + 1, d.current)
             /\ c.occurred => /\ c.d.trigScan \in Signal /\ c.d.trigScan > d.pre
                              /\ \A i \in Signal : i > d.pre => i >= c.d.trigScan
<1> DEFINE c == CheckForTrigger(d, acquired)
           s == d.pre + 1
           w == AtLeast(s - 1, from)
           n == acquired - d.trigCount
           m == d.current - w
           o == LevelOffset(d, n)
           looks == acquired > d.trigCount
<1>1. /\ s \in Nat \ {0} /\ s - 1 = d.pre /\ d.pre \in Nat
      /\ d.current \in Nat /\ d.trigCount \in Nat /\ from < d.current
      /\ w = from + d.trigCount /\ w \in Nat /\ w >= from /\ RingScans \in Nat
  <2>1. d.pre \in Nat /\ d.current \in Int /\ d.trigCount \in Int /\ RingScans \in Nat
    BY SizesAssumption DEF IsPde, Counts
  <2>2. s - 1 = d.pre
    BY <2>1
  <2> QED BY <2>1, <2>2 DEF AtLeast
<1>2. /\ c.d.search = IF looks THEN (d.search + o) % RingScans ELSE d.search
      /\ c.occurred <=> looks /\ o < n
      /\ looks /\ o < n => c.d.trigScan = d.current - n + o + 1
  BY CheckForTriggerSearch
<1> HIDE DEF c
<1>3. Searches(d, s, from) /\ scans <= w + RingScans
  <2>1. Searches(d, s, from)
    OBVIOUS
  <2> HIDE DEF w
  <2> QED BY <1>1, <2>1
<1>4. CASE ~looks
  <2>1. d.current <= w
    BY <1>1, <1>4
  <2> HIDE DEF s, looks
  <2>2. Searches(c.d, s, d.current)
    BY <1>1, <1>2, <1>3, <1>4, <2>1, StillBehind
  <2> QED BY <1>2, <1>4, <2>2 DEF c, s
<1>5. CASE looks
  <2>1. w <= d.current /\ n = m
    BY <1>1, <1>5
  <2> HIDE DEF s, w
  <2>2. LET p == LevelOffset(d, m)
        IN  /\ m \in Nat /\ p \in 0..m
            /\ ~(p < m) => /\ (d.search + p) % RingScans = AtLeast(s - 1, d.current) % RingScans
                           /\ \A i \in Signal : i >= s => i > d.current
            /\ p < m => /\ w + p + 1 \in Signal /\ w + p + 1 >= s
                        /\ \A i \in Signal : i >= s => i >= w + p + 1
    BY <1>1, <1>3, <2>1, SearchGoesOn DEF w
  <2>3. /\ o \in 0..m
        /\ ~(o < m) => /\ (d.search + o) % RingScans = AtLeast(s - 1, d.current) % RingScans
                       /\ \A i \in Signal : i >= s => i > d.current
        /\ o < m => /\ w + o + 1 \in Signal /\ w + o + 1 >= s
                    /\ \A i \in Signal : i >= s => i >= w + o + 1
    BY <2>1, <2>2
  <2>4. looks /\ o < n => c.d.trigScan = w + o + 1
    <3>1. o \in Int
      BY <2>2, <2>3
    <3> HIDE DEF o
    <3> QED BY <1>1, <1>2, <2>1, <3>1
  <2>5. Signal \subseteq Nat /\ (\A i \in Signal : i > d.pre => i >= s) /\ s > d.pre
    BY <1>1, RequestsAssumption DEF s
  <2> HIDE DEF looks, o, n, m
  <2>6. CASE o < n
    <3>1. c.occurred /\ c.d.trigScan = w + o + 1
      BY <1>2, <1>5, <2>4, <2>6 DEF looks
    <3>2. /\ w + o + 1 \in Signal /\ w + o + 1 >= s
          /\ \A i \in Signal : i >= s => i >= w + o + 1
      BY <2>1, <2>3, <2>6
    <3>3. c.d.trigScan \in Signal /\ c.d.trigScan > d.pre
      <4>1. c.d.trigScan \in Signal /\ c.d.trigScan >= s
        BY <3>1, <3>2
      <4>2. c.d.trigScan \in Nat /\ s \in Nat /\ d.pre \in Nat
        BY <1>1, <2>5, <4>1
      <4> QED BY <2>5, <4>1, <4>2
    <3> QED BY <2>5, <3>1, <3>2, <3>3 DEF c
  <2>7. CASE ~(o < n)
    <3>1. Searches(c.d, s, d.current)
      BY <1>2, <1>5, <2>1, <2>3, <2>7 DEF Searches
    <3> QED BY <1>2, <2>7, <3>1 DEF c, s
  <2> QED BY <2>6, <2>7
<1> QED BY <1>4, <1>5
(* No scan that a callback is to search has been overwritten.              *)
LEMMA StillInRing ==
  ASSUME Running, pde.running, Unlapped, Prompt(pde), NEW lag \in 0..FifoScans,
         NEW f, NEW acquired, Fresh(f, acquired, lag), acquired > 0
  PROVE  scans <= pde.current + RingScans
<1>1. /\ pde.current \in Int /\ scans \in Nat /\ RingScans \in Nat /\ FifoScans \in Nat
      /\ MaxLatency \in Nat /\ pde.toMove \in Int /\ pde.toMove >= 0 /\ pde.acqActive
  BY RunningFacts, SizesAssumption DEF Running, Ledger, Held, IsPde, Counts
<1>2. /\ acquired \in Nat /\ f.toMove = pde.toMove /\ f.current = pde.current + acquired
      /\ acquired + f.toMove <= RingScans /\ scans <= f.current + lag
  BY DEF Fresh, Scanned, SameTransfer
<1>3. CASE FifoScans = 0
  BY <1>1, <1>2, <1>3
<1>4. CASE MaxLatency <= RingScans
  BY <1>1, <1>4 DEF Prompt, Near
<1> QED BY <1>3, <1>4 DEF Unlapped

(* A callback that looks for the stop event.                               *)
LEMMA StopCallbackExact ==
  ASSUME Running, Exact(pde), scans <= pde.current + RingScans,
         NEW f, NEW acquired, NEW lag, Fresh(f, acquired, lag), acquired > 0,
         f.event = "STOP", call.at # "startAdvance", pde.running
  PROVE  Exact(StopPhase(f, acquired)) /\ Near(StopPhase(f, acquired))
<1> DEFINE e == StopPhase(f, acquired)
<1>1. /\ IsPde(f) /\ SameRequest(pde, f) /\ f.event = pde.event
      /\ f.trigScan = pde.trigScan /\ f.trigSw = pde.trigSw
      /\ f.last = pde.current /\ f.current = pde.current + acquired
      /\ acquired \in Nat /\ f.search = pde.search /\ Scanned(f, acquired)
      /\ acquired + f.toMove <= RingScans
  BY DEF Fresh, Scanned
<1>2. /\ pde.acqActive /\ scans \in Nat /\ pde.current \in Int /\ RingScans \in Nat
      /\ hist.armed.stop = pde.stop /\ hist.armed.post = pde.post
      /\ MaxLatency \in Nat
  BY RunningFacts, SizesAssumption DEF Running, IsPde, Counts
<1>3. Ready(f, acquired) /\ Steady
  BY <1>1, StopReady
<1>4. f.stop = "Level" =>
        /\ Searches(f, f.trigScan + f.post, f.last)
        /\ scans <= AtLeast(f.trigScan + f.post - 1, f.last) + RingScans
  <2>1. f.stop = "Level" => Searches(f, f.trigScan + f.post, f.last)
    BY <1>1, <1>2 DEF Exact, Searching, Searches, SameRequest
  <2>2. f.trigScan + f.post - 1 \in Int /\ f.last \in Int
    BY <1>1 DEF IsPde, Counts
  <2>3. scans <= AtLeast(f.trigScan + f.post - 1, f.last) + RingScans
    BY <1>1, <1>2, <2>2 DEF AtLeast
  <2> QED BY <2>1, <2>3
<1>5. /\ e.event \in {"STOP", "POSTSTOP"}
      /\ e.trigScan = f.trigScan /\ e.trigSw = f.trigSw
      /\ e.event = "POSTSTOP" => ~e.acqActive
      /\ e.event = "STOP" =>
           /\ e.current = f.current
           /\ e.stop = "Level" => Searches(e, e.trigScan + e.post, e.current)
      /\ StopFirst(e)
  BY <1>1, <1>2, <1>3, <1>4, StopPhaseExact
<1> HIDE DEF e
<1>6. Searching(e)
  BY <1>5 DEF Searching
<1>7. Near(e)
  <2>1. scans <= pde.current + MaxLatency
    BY <1>2 DEF Exact, Prompt, Near
  <2> QED BY <1>1, <1>2, <1>5, <2>1 DEF Near
<1>8. TriggerFirst(e)
  BY <1>1, <1>5 DEF Exact, TriggerFirst
<1> QED BY <1>5, <1>6, <1>7, <1>8 DEF Exact, Prompt, e

(* A callback that looks for the trigger event.                            *)
LEMMA TriggerCallbackExact ==
  ASSUME Running, Exact(pde), scans <= pde.current + RingScans,
         NEW f, NEW acquired, NEW lag, Fresh(f, acquired, lag), acquired > 0,
         f.event = "TRIGGER", pde.running
  PROVE  Exact(TriggerPhase(f, acquired)) /\ Near(TriggerPhase(f, acquired))
<1> DEFINE c == CheckForTrigger(f, acquired)
           b == c.d
           t == OnTrigger(b)
           left == b.current - b.trigScan + 1
           e == TriggerPhase(f, acquired)
<1>1. /\ IsPde(f) /\ SameRequest(pde, f) /\ SameTransfer(pde, f) /\ f.event = pde.event
      /\ f.trigScan = pde.trigScan /\ f.trigSw = pde.trigSw
      /\ f.trigCount = pde.trigCount /\ f.stopCount = pde.stopCount
      /\ f.last = pde.current /\ f.current = pde.current + acquired /\ f.current <= scans
      /\ acquired \in Nat /\ f.search = pde.search /\ Scanned(f, acquired)
      /\ acquired + f.toMove <= RingScans
  BY DEF Fresh, Scanned
<1>2. /\ pde.acqActive /\ scans \in Nat /\ pde.current \in Nat /\ RingScans \in Nat
      /\ hist.armed.stop = pde.stop /\ hist.armed.post = pde.post
      /\ hist.armed.pre = pde.pre /\ hist.armed.source = pde.source
      /\ pde.pre \in Nat /\ pde.post \in Nat /\ MaxLatency \in Nat
      /\ pde.post = 0 => pde.stop = "Infinite"
  <2>1. pde.current \in Nat
    BY <1>1 DEF Running, Ledger, Ordered, IsPde, Counts
  <2>2. hist.armed.source = pde.source
    BY RunningFacts DEF Request
  <2> QED BY <2>1, <2>2, RunningFacts, SizesAssumption DEF Running
<1>3. /\ pde.trigCount = AtLeast(0, pde.pre - pde.current) /\ pde.stopCount = pde.post
      /\ pde.source \in {"Immediate", "Hardware"} => pde.current = 0
      /\ pde.trigSw => pde.current <= pde.trigScan
      /\ ~pde.cyclic => pde.inUser <= pde.size
      /\ pde.transferActive => pde.userOpen
  BY <1>1, <1>2 DEF Running, Ledger, Awaiting, Held
<1>4. e = IF c.occurred THEN StopPhase(t, left) ELSE b
  BY <1>1 DEF TriggerPhase
<1>5. /\ IsPde(b) /\ AlikeButTrigger(f, b) /\ TriggerFound(f, acquired, c.occurred, b)
  <2>1. acquired \in Int
    BY <1>1
  <2> QED BY <1>1, <2>1, CheckForTriggerType, CheckForTriggerFields
<1>6. f.source = "Level" /\ ~f.trigSw =>
        /\ ~c.occurred => Searches(b, pde.pre + 1, f.current)
        /\ c.occurred => /\ b.trigScan \in Signal /\ b.trigScan > pde.pre
                         /\ \A i \in Signal : i > pde.pre => i >= b.trigScan
  <2>1. f.pre = pde.pre /\ f.source = pde.source
    BY <1>1 DEF SameRequest
  <2>2. f.source = "Level" => Searches(f, pde.pre + 1, pde.current)
    BY <1>1, <1>2, <2>1 DEF Exact, Searching, Searches
  <2> HIDE DEF c
  <2> QED BY <1>1, <1>2, <1>3, <2>1, <2>2, TriggerSearched DEF c
<1>7. /\ ~c.occurred => b.search = f.search \/ (f.source = "Level" /\ ~f.trigSw)
      /\ f.source = "Level" /\ f.trigSw /\ ~c.occurred => acquired <= f.trigCount
  <2>1. /\ ~(f.source = "Level" /\ ~f.trigSw) => b.search = f.search
    BY <1>1, CheckForTriggerSearch
  <2>2. f.trigCount \in Int
    BY <1>1 DEF IsPde, Counts
  <2>3. f.trigSw /\ ~c.occurred => acquired <= f.trigCount
    BY <1>1, <1>5, <2>2 DEF TriggerFound
  <2> QED BY <2>1, <2>3
<1> HIDE DEF c, b, e
<1>8. /\ b.event = "TRIGGER" /\ b.current = f.current /\ b.trigSw = f.trigSw
      /\ SameRequest(pde, b) /\ SameTransfer(pde, b) /\ b.stopCount = pde.post
  BY <1>1, <1>3, <1>5 DEF AlikeButTrigger, SameCounter, SameRequest, SameTransfer
<1>9. scans <= pde.current + MaxLatency
  BY <1>2 DEF Exact, Prompt, Near
<1>10. CASE ~c.occurred
  <2>1. e = b
    BY <1>4, <1>10
  <2>2. Searching(e)
    <3>1. ASSUME b.source = "Level" PROVE Searches(b, b.pre + 1, b.current)
      <4>1. b.pre = pde.pre /\ f.source = "Level" /\ pde.source = "Level"
        BY <1>1, <1>8, <3>1 DEF SameRequest
      <4>2. CASE ~f.trigSw
        BY <1>6, <1>8, <1>10, <4>1, <4>2
      <4>3. CASE f.trigSw
        <5>1. b.search = pde.search /\ acquired <= pde.trigCount
          BY <1>1, <1>7, <1>10, <4>1, <4>3
        <5>2. Searches(pde, pde.pre + 1, pde.current)
          BY <1>1, <1>2, <4>1 DEF Exact, Searching
        <5>3. /\ pde.current < f.current /\ f.current <= AtLeast(pde.pre, pde.current)
              /\ f.current \in Nat /\ pde.pre + 1 \in Nat \ {0} /\ pde.pre + 1 - 1 = pde.pre
          BY <1>1, <1>2, <1>3, <5>1 DEF AtLeast
        <5> QED BY <1>2, <1>8, <4>1, <5>1, <5>2, <5>3, StillBehind
      <4> QED BY <4>2, <4>3
    <3> QED BY <1>8, <2>1, <3>1 DEF Searching
  <2>3. Near(e)
    BY <1>1, <1>2, <1>8, <1>9, <2>1 DEF Near
  <2> QED BY <1>8, <2>1, <2>2, <2>3 DEF Exact, Prompt, TriggerFirst, StopFirst, e
<1>11. CASE c.occurred
  <2>1. e = StopPhase(t, left)
    BY <1>4, <1>11
  <2>2. TriggerFound(f, acquired, TRUE, b)
    BY <1>5, <1>11 DEF TriggerFound
  <2>3. /\ IsPde(t) /\ left \in Nat /\ Ready(t, left) /\ Steady /\ t.current = f.current
    BY <1>1, <1>5, <2>2, TriggerReady
  <2>4. (~b.cyclic => b.inUser <= b.size) /\ (b.transferActive => b.userOpen)
    BY <1>3, <1>8 DEF SameTransfer
  <2>5. t.search = (b.trigScan + b.stopCount - 1) % RingScans /\ Triggers(b, t)
    BY <1>2, <1>5, <2>4, OnTriggerSearch, OnTriggerFields
  <2> HIDE DEF t, left
  <2>6. /\ t.trigScan = b.trigScan /\ t.trigSw = b.trigSw /\ t.last = b.trigScan - 1
        /\ t.stop = pde.stop /\ t.post = pde.post
    BY <1>8, <2>5 DEF Triggers, SameRequest
  <2>7. b.trigScan \in Nat /\ b.trigScan >= 1 /\ b.trigScan >= pde.current
    <3>1. b.trigScan \in Int /\ f.trigScan \in Int /\ pde.trigCount \in Nat
      BY <1>1, <1>2, <1>3, <1>5 DEF IsPde, Counts, AtLeast
    <3>2. 1 <= b.trigScan
      BY <2>3, <2>6 DEF Ready
    <3>3. b.trigScan >= pde.current
      <4>1. f.source \in Sources /\ f.source = pde.source /\ f.trigCount \in Int
        BY <1>1 DEF IsPde, Counts, SameRequest
      <4>2. acquired > f.trigCount
        BY <1>1, <2>2, <4>1 DEF TriggerFound
      <4>3. CASE f.trigSw
        BY <1>1, <1>2, <1>3, <2>2, <3>1, <4>2, <4>3 DEF TriggerFound, AtLeast
      <4>4. CASE ~f.trigSw /\ f.source \in {"Immediate", "Hardware"}
        BY <1>2, <1>3, <3>1, <3>2, <4>1, <4>4
      <4>5. CASE ~f.trigSw /\ f.source = "Level"
        <5>1. f.current - acquired + f.trigCount < b.trigScan
          BY <2>2, <4>2, <4>5 DEF TriggerFound
        <5>2. f.current - acquired + f.trigCount = pde.current + pde.trigCount
          BY <1>1, <1>2, <3>1
        <5> QED BY <1>2, <3>1, <5>1, <5>2
      <4>6. CASE ~f.trigSw /\ f.source = "Software"
        BY <2>2, <4>2, <4>6 DEF TriggerFound
      <4> QED BY <4>1, <4>3, <4>4, <4>5, <4>6 DEF Sources
    <3> QED BY <3>1, <3>2, <3>3
  <2>8. t.stop = "Level" =>
          /\ Searches(t, t.trigScan + t.post, t.last)
          /\ scans <= AtLeast(t.trigScan + t.post - 1, t.last) + RingScans
    <3> SUFFICES ASSUME t.stop = "Level"
                 PROVE  /\ Searches(t, t.trigScan + t.post, t.last)
                        /\ scans <= AtLeast(t.trigScan + t.post - 1, t.last) + RingScans
      OBVIOUS
    <3> DEFINE s == b.trigScan + pde.post
    <3>1. pde.post >= 1
      BY <1>2, <2>6
    <3>2. /\ s \in Nat /\ s - 1 >= pde.current /\ s - 1 >= b.trigScan - 1
          /\ AtLeast(s - 1, b.trigScan - 1) = s - 1
          /\ t.trigScan + t.post = s /\ t.last = b.trigScan - 1 /\ s > t.last
          /\ t.trigScan + t.post - 1 = s - 1
          /\ b.trigScan + b.stopCount - 1 = s - 1
      BY <1>2, <1>8, <2>6, <2>7, <3>1 DEF AtLeast
    <3> HIDE DEF s
    <3>3. Searches(t, s, t.last)
      <4>1. \A i \in Signal : i >= s => i > t.last
        <5>1. Signal \subseteq Nat
          BY RequestsAssumption
        <5> QED BY <2>7, <3>2, <5>1
      <4> QED BY <2>5, <3>2, <4>1 DEF Searches
    <3>4. scans <= AtLeast(s - 1, t.last) + RingScans
      <4>1. AtLeast(s - 1, t.last) = s - 1
        BY <3>2
      <4>2. s - 1 \in Int /\ scans <= s - 1 + RingScans
        BY <1>2, <3>2
      <4> QED BY <1>2, <4>1, <4>2, Zenon
    <3> QED BY <3>2, <3>3, <3>4
  <2>9. /\ e.event \in {"STOP", "POSTSTOP"}
        /\ e.trigScan = t.trigScan /\ e.trigSw = t.trigSw
        /\ e.event = "POSTSTOP" => ~e.acqActive
        /\ e.event = "STOP" =>
             /\ e.current = t.current
             /\ e.stop = "Level" => Searches(e, e.trigScan + e.post, e.current)
        /\ StopFirst(e)
    BY <1>2, <2>1, <2>3, <2>8, StopPhaseExact
  <2>10. Searching(e)
    BY <2>9 DEF Searching
  <2>11. Near(e)
    BY <1>1, <1>2, <1>9, <2>3, <2>9 DEF Near
  <2>12. TriggerFirst(e)
    BY <1>1, <1>2, <1>6, <1>8, <1>11, <2>6, <2>9 DEF TriggerFirst, SameRequest
  <2> QED BY <2>9, <2>10, <2>11, <2>12 DEF Exact, Prompt, e
<1> QED BY <1>10, <1>11

(* The whole callback.                                                     *)
LEMMA CallbackExact ==
  ASSUME Running, pde.running, Unlapped, Exact(pde), NEW lag \in 0..FifoScans
  PROVE  LET d == CheckEventsAndMoveData(pde, lag)
         IN  Harmful(d) \/ (Exact(d) /\ Near(d))
<1> DEFINE d == CheckEventsAndMoveData(pde, lag)
<1>1. /\ pde.acqActive /\ pde.event \in {"TRIGGER", "STOP"} /\ lag \in Nat
      /\ scans \in Nat /\ pde.current \in Int /\ MaxLatency \in Nat /\ Prompt(pde)
  BY RunningFacts, SizesAssumption DEF Running, IsPde, Counts, Exact
<1>2. \/ Dropped(pde, d)
      \/ \E f, acquired :
           /\ Fresh(f, acquired, lag)
           /\ d = IF acquired = 0 THEN f
                  ELSE IF f.event = "TRIGGER" THEN TriggerPhase(f, acquired)
                  ELSE StopPhase(f, acquired)
  BY <1>1, CallbackCases
<1> HIDE DEF d
<1>3. CASE Dropped(pde, d)
  <2>1. /\ ~d.acqActive /\ d.event = pde.event /\ d.trigScan = pde.trigScan
        /\ d.trigSw = pde.trigSw
    BY <1>3 DEF Dropped
  <2>2. Searching(d) /\ Prompt(d) /\ Near(d)
    BY <2>1 DEF Searching, Prompt, Near
  <2>3. TriggerFirst(d)
    BY <2>1, Zenon DEF Exact, TriggerFirst
  <2>4. StopFirst(d)
    BY <1>1, <2>1 DEF StopFirst
  <2> QED BY <2>2, <2>3, <2>4 DEF Exact, d
<1>4. ASSUME NEW f, NEW acquired, Fresh(f, acquired, lag),
             d = IF acquired = 0 THEN f
                 ELSE IF f.event = "TRIGGER" THEN TriggerPhase(f, acquired)
                 ELSE StopPhase(f, acquired)
      PROVE  Harmful(d) \/ (Exact(d) /\ Near(d))
  <2>1. /\ Scanned(f, acquired) /\ f.event = pde.event /\ acquired \in Nat
        /\ f.search = pde.search /\ f.current = pde.current + acquired
        /\ SameRequest(pde, f) /\ f.trigScan = pde.trigScan /\ f.trigSw = pde.trigSw
    BY <1>4 DEF Fresh, Scanned
  <2>2. CASE acquired = 0
    <3>1. d = f /\ f.current = pde.current
      BY <1>1, <1>4, <2>1, <2>2
    <3>2. Searching(d)
      BY <1>1, <2>1, <3>1 DEF Exact, Searching, Searches, SameRequest
    <3>3. Prompt(d) /\ Near(d)
      BY <1>1, <3>1 DEF Prompt, Near
    <3>4. TriggerFirst(d) /\ StopFirst(d)
      BY <1>1, <2>1, <3>1 DEF Exact, TriggerFirst, StopFirst
    <3> QED BY <3>2, <3>3, <3>4 DEF Exact
  <2>3. CASE acquired # 0
    <3>1. acquired > 0 /\ scans <= pde.current + RingScans
      BY <1>1, <1>4, <2>1, <2>3, StillInRing
    <3>2. CASE f.event = "TRIGGER"
      BY <1>4, <2>3, <3>1, <3>2, TriggerCallbackExact
    <3>3. CASE f.event = "STOP"
      <4>1. d = StopPhase(f, acquired)
        BY <1>4, <2>3, <3>3
      <4> QED BY <1>4, <2>1, <3>1, <3>3, <4>1, AdvanceHarmed, StopCallbackExact
    <3> QED BY <1>1, <2>1, <3>2, <3>3
  <2> QED BY <2>2, <2>3
<1> QED BY <1>2, <1>3, <1>4 DEF d

(* Steps that leave the search as it is.                                   *)
LEMMA ExactCarried ==
  ASSUME Exact(pde), SameSearch(pde, pde'), scans' = scans, hist'.armed = hist.armed
  PROVE  Exact(pde)'
<1>1. Searching(pde)'
  BY DEF Exact, Searching, Searches, SameSearch
<1>2. Prompt(pde)'
  BY DEF Exact, Prompt, Near, SameSearch
<1>3. TriggerFirst(pde)'
  BY DEF Exact, TriggerFirst, SameSearch
<1>4. StopFirst(pde)'
  BY DEF Exact, StopFirst, SameSearch
<1> QED BY <1>1, <1>2, <1>3, <1>4 DEF Exact

LEMMA TimerExact ==
  ASSUME DInv, AdcEventL, ~hist'.raced, Unlapped, Exact(pde)
  PROVE  Exact(pde)'
<1>1. /\ IsPde(pde) /\ scans \in Nat /\ fault \in BOOLEAN /\ call \in Calls
      /\ hist \in [raced: BOOLEAN, arms: Nat,
                   armed: [source: Sources, stop: StopSources, pre: Nat, post: Nat]]
  BY DEF DInv, IInv, TypeOK, Calls
<1>2. /\ scans' = scans /\ hist'.armed = hist.armed /\ ~hist.raced /\ ~Harmful(pde')
      /\ pde.running
  <2>1. hist' = [hist EXCEPT !.raced = hist.raced \/ Harmful(pde')]
        /\ UNCHANGED <<scans, fault, call>> /\ pde.running
    BY DEF AdcEventL
  <2>2. hist'.raced = (hist.raced \/ Harmful(pde')) /\ hist'.armed = hist.armed
    BY <1>1, <2>1
  <2> QED BY <2>1, <2>2
<1>3. Ledger(pde) /\ Flagging(pde)
  BY <1>2 DEF DInv
<1>4. CASE pde.die \/ ~pde.dma
  <2>1. pde' = [pde EXCEPT !.running = FALSE]
    BY <1>4 DEF AdcEventL
  <2>2. SameSearch(pde, pde')
    BY <1>1, <2>1, SMTT(30) DEF SameSearch, IsPde, Flags, Counts, Others
  <2> QED BY <1>2, <2>2, ExactCarried
<1>5. CASE ~pde.die /\ pde.dma
  <2>1. PICK lag \in 0..FifoScans :
          LET d == CheckEventsAndMoveData(pde, lag) IN pde' = [d EXCEPT !.running = d.dma]
    BY <1>5 DEF AdcEventL
  <2> DEFINE d == CheckEventsAndMoveData(pde, lag)
  <2>2. Running
    BY <1>1, <1>3, <1>5 DEF Running
  <2>3. lag \in Nat
    BY SizesAssumption
  <2>4. IsPde(d)
    BY <1>1, <2>3, CallbackType
  <2>5. Harmful(d) \/ (Exact(d) /\ Near(d))
    BY <1>2, <2>2, CallbackExact
  <2>6. pde' = [d EXCEPT !.running = d.dma]
    BY <2>1
  <2> HIDE DEF d
  <2>7. Alike(d, pde') /\ pde'.search = d.search /\ pde'.running = d.dma
        /\ pde'.acqActive = d.acqActive
    BY <2>4, <2>6, SMTT(30) DEF Alike, SameEvents, SameCounter, SameRequest, SameTransfer,
                                IsPde, Flags, Counts, Others
  <2>8. ~Harmful(d)
    BY <1>2, <2>7, AlikeLedger
  <2>9. Exact(d) /\ Near(d)
    BY <2>5, <2>8
  <2> QED BY <1>2, <2>7, <2>9
  DEF Exact, Searching, Searches, Prompt, Near, TriggerFirst, StopFirst, Alike, SameEvents,
      SameCounter, SameRequest
<1> QED BY <1>1, <1>4, <1>5 DEF IsPde, Flags
-----------------------------------------------------------------------------
LEMMA ArmExact ==
  ASSUME IInv, IInv', AdcArmInitFailure \/ AdcArmDone
  PROVE  Exact(pde)'
<1>1. /\ IsPde(pde) /\ IsPde(pde') /\ RingScans \in Nat \ {0} /\ Signal \subseteq Nat
      /\ MaxLatency \in Nat
  BY SizesAssumption, RequestsAssumption DEF IInv, TypeOK
<1>2. /\ pde'.search = pde.pre % RingScans /\ pde'.current = 0 /\ pde'.event = "TRIGGER"
      /\ pde'.pre = pde.pre /\ scans' = 0
  BY ArmPlaces
<1>3. pde'.acqActive => pde.pre \in Nat
  <2>1. CASE AdcArmInitFailure
    <3> DEFINE r == Rearmed(pde)
    <3>1. pde' = AdcDisarm(r) /\ IsPde(r)
      BY <1>1, <2>1, RearmedType DEF AdcArmInitFailure
    <3> HIDE DEF r
    <3> QED BY <3>1, DisarmType DEF Quiet
  <2>2. CASE AdcArmDone
    <3>1. /\ hist \in [raced: BOOLEAN, arms: Nat,
                       armed: [source: Sources, stop: StopSources, pre: Nat, post: Nat]]
          /\ hist' \in [raced: BOOLEAN, arms: Nat,
                        armed: [source: Sources, stop: StopSources, pre: Nat, post: Nat]]
      BY DEF IInv, TypeOK
    <3>2. hist' = [hist EXCEPT !.arms = @ + 1,
                     !.armed = [source |-> pde.source, stop |-> pde.stop,
                                pre |-> pde.pre, post |-> pde.post]]
      BY <2>2 DEF AdcArmDone
    <3>3. hist'.armed.pre = pde.pre
      BY <3>1, <3>2
    <3>4. hist'.armed.pre \in Nat
      BY <3>1
    <3> QED BY <3>3, <3>4
  <2> QED BY <2>1, <2>2
<1>4. Searching(pde)'
  <2>1. ASSUME pde'.acqActive
        PROVE  Searches(pde', pde'.pre + 1, pde'.current)
    <3>1. pde.pre \in Nat /\ pde.pre + 1 - 1 = pde.pre /\ AtLeast(pde.pre, 0) = pde.pre
      BY <1>3, <2>1 DEF AtLeast
    <3>2. \A i \in Signal : i >= pde.pre + 1 => i > 0
      BY <1>1, <3>1
    <3> QED BY <1>2, <3>1, <3>2 DEF Searches
  <2> QED BY <1>2, <2>1 DEF Searching, Searches
<1>5. Prompt(pde)'
  BY <1>1, <1>2 DEF Prompt, Near
<1>6. TriggerFirst(pde)' /\ StopFirst(pde)'
  BY <1>2 DEF TriggerFirst, StopFirst
<1> QED BY <1>4, <1>5, <1>6 DEF Exact

LEMMA StartExact ==
  ASSUME IInv, Exact(pde),
         \/ AdcStartActive \/ AdcStartTake \/ AdcStartCopy
         \/ AdcStartAdvance \/ AdcStartEnd
  PROVE  Exact(pde)'
<1>1. /\ IsPde(pde) /\ call \in Calls /\ scans \in Nat
      /\ scans' = scans /\ hist' = hist
  BY DEF IInv, TypeOK, AdcStartActive, AdcStartTake, AdcStartCopy, AdcStartAdvance, AdcStartEnd, Calls
<1>2. SameSearch(pde, pde')
  <2>1. ASSUME NEW d, IsPde(d), NEW m \in Int
        PROVE  SameSearch(d, [d EXCEPT !.toMove = m])
    BY <2>1, SMTT(30) DEF SameSearch, IsPde, Flags, Counts, Others
  <2>2. ASSUME NEW d, IsPde(d) PROVE SameSearch(d, d)
    BY DEF SameSearch
  <2>3. ASSUME NEW d, NEW e, NEW f, SameSearch(d, e), SameSearch(e, f)
        PROVE  SameSearch(d, f)
    BY <2>3 DEF SameSearch
  <2>4. CASE AdcStartTake
    BY <1>1, <2>1, <2>2, <2>4 DEF AdcStartTake
  <2>5. CASE AdcStartCopy
    <3> DEFINE n == call.n
               m == Room(pde, n)
    <3>1. n \in Int /\ pde.toMove \in Int /\ m \in Int
      <4>1. pde.toMove \in Int /\ pde.size \in Int /\ pde.inUser \in Int
        BY <1>1 DEF IsPde, Counts
      <4>2. n \in Int
        BY <1>1 DEF Calls
      <4> QED BY <4>1, <4>2 DEF Room
    <3>2. CASE ~pde.transferActive
      <4>1. pde' = [pde EXCEPT !.toMove = pde.toMove + n]
        BY <2>5, <3>2 DEF AdcStartCopy
      <4> QED BY <1>1, <2>1, <3>1, <4>1
    <3>3. CASE pde.transferActive
      <4> DEFINE kept == IF Fills(pde, n) THEN [pde EXCEPT !.toMove = n - m] ELSE pde
      <4>1. pde' \in {[pde EXCEPT !.wild = TRUE], MemCopy(kept, m)}
        BY <2>5, <3>3 DEF AdcStartCopy
      <4> HIDE DEF m, n
      <4>2. SameSearch(pde, kept) /\ IsPde(kept)
        <5>1. n - m \in Int
          BY <3>1
        <5> QED BY <1>1, <5>1, SMTT(30) DEF SameSearch, IsPde, Flags, Counts, Others
      <4>3. SameSearch(pde, [pde EXCEPT !.wild = TRUE])
        BY <1>1, SMTT(30) DEF SameSearch, IsPde, Flags, Counts, Others
      <4> DEFINE e == MemCopy(kept, m)
      <4> HIDE DEF kept
      <4>4. SameSearch(kept, e)
        <5>1. /\ SameEvents(kept, e) /\ SameCounter(kept, e) /\ SameRequest(kept, e)
              /\ e.search = kept.search
          BY <1>1, <3>1, <4>2, MemCopyFields, MemCopyPlace
        <5>2. e.running = kept.running
          BY <4>2, SMTT(30) DEF MemCopy, IsPde, Flags, Counts, Others
        <5> HIDE DEF e
        <5> QED BY <5>1, <5>2 DEF SameSearch, SameEvents, SameCounter, SameRequest
      <4>5. SameSearch(pde, e)
        <5> HIDE DEF e
        <5> QED BY <2>3, <4>2, <4>4
      <4> QED BY <4>1, <4>3, <4>5
    <3> QED BY <1>1, <3>2, <3>3 DEF IsPde, Flags
  <2>6. CASE AdcStartAdvance
    <3> DEFINE d == Advance(pde, call.n)
    <3>1. pde' \in {AdcStop(d), d, [pde EXCEPT !.wild = TRUE]} /\ call.n \in Int
      BY <1>1, <2>6 DEF AdcStartAdvance, Calls
    <3>2. IsPde(d)
      BY <1>1, <3>1, AdvanceType DEF Calls
    <3>3. SameSearch(pde, d)
      <4>1. SameEvents(pde, d) /\ SameCounter(pde, d) /\ SameRequest(pde, d)
        BY <1>1, <3>1, AdvanceFields
      <4>2. d.search = pde.search /\ d.running = pde.running
        BY <1>1, SMTT(30) DEF Advance, IsPde, Flags, Counts, Others
      <4> HIDE DEF d
      <4> QED BY <4>1, <4>2 DEF SameSearch, SameEvents, SameCounter, SameRequest
    <3> HIDE DEF d
    <3>4. SameSearch(pde, AdcStop(d))
      BY <2>3, <3>2, <3>3, StopSearch
    <3>5. SameSearch(pde, [pde EXCEPT !.wild = TRUE])
      BY <1>1, SMTT(30) DEF SameSearch, IsPde, Flags, Counts, Others
    <3> QED BY <3>1, <3>3, <3>4, <3>5
  <2>7. CASE AdcStartEnd
    BY <1>1, <2>2, <2>7, StopSearch DEF AdcStartEnd
  <2>8. CASE AdcStartActive
    BY <2>8, ActivePlaces
  <2> QED BY <2>4, <2>5, <2>6, <2>7, <2>8
<1> QED BY <1>1, <1>2, ExactCarried
-----------------------------------------------------------------------------
LEMMA InitExactInv == Init => ExactInv
<1> SUFFICES ASSUME Init PROVE ExactInv
  OBVIOUS
<1>1. pde.event = "TRIGGER" /\ ~pde.acqActive
  BY SMTT(30) DEF Init, InitPde
<1>2. Exact(pde)
  BY <1>1 DEF Exact, Searching, Prompt, Near, TriggerFirst, StopFirst
<1> QED BY <1>2, InitDInv DEF ExactInv

LEMMA NextExactInv == ExactInv /\ [Next]_vars => ExactInv'
<1> SUFFICES ASSUME ExactInv, [Next]_vars, ~hist'.raced, Unlapped PROVE Exact(pde)'
  BY NextDInv DEF ExactInv, Unlapped
<1>1. DInv /\ IInv /\ IInv' /\ ~hist.raced /\ Exact(pde)
  BY NextDInv, RacedStays DEF ExactInv, DInv
<1>2. SameSearch(pde, pde)
  BY DEF SameSearch
<1>3. CASE UNCHANGED vars \/ Undefined
  BY <1>1, <1>2, <1>3, ExactCarried DEF vars, Undefined
<1>4. CASE AdcEventL
  BY <1>1, <1>4, TimerExact
<1>5. CASE Program
  BY <1>1, <1>5, ProgramPlaces, ExactCarried
<1>6. CASE Continue
  <2>1. CASE AdcArmTimeout
    BY <1>1, <1>2, <2>1, ExactCarried DEF AdcArmTimeout
  <2>2. CASE AdcSoftTrigFlag
    BY <1>1, <2>2, FlagPlaces, ExactCarried
  <2> QED BY <1>1, <1>6, <2>1, <2>2, ArmExact, StartExact DEF Continue
<1>7. CASE Board
  <2>1. CASE BoardScan
    <3>1. /\ pde' = pde /\ hist' = hist /\ scans' = scans + 1
          /\ pde.running => scans - pde.current < MaxLatency
      BY <2>1 DEF BoardScan
    <3>2. pde.current \in Int /\ scans \in Nat /\ MaxLatency \in Nat
      BY <1>1, SizesAssumption DEF IInv, TypeOK, IsPde, Counts
    <3>3. Prompt(pde)'
      BY <3>1, <3>2 DEF Prompt, Near
    <3>4. Searching(pde)' /\ TriggerFirst(pde)' /\ StopFirst(pde)'
      BY <1>1, <3>1 DEF Exact, Searching, Searches, TriggerFirst, StopFirst
    <3> QED BY <3>3, <3>4 DEF Exact
  <2>2. CASE BoardTrigger
    <3>1. /\ pde' = [pde EXCEPT !.pacer = "on"] /\ scans' = scans /\ hist' = hist
          /\ IsPde(pde)
      BY <1>1, <2>2 DEF BoardTrigger, IInv, TypeOK
    <3>2. SameSearch(pde, pde')
      BY <3>1, SMTT(30) DEF SameSearch, IsPde, Flags, Counts, Others
    <3> QED BY <1>1, <3>1, <3>2, ExactCarried
  <2>3. CASE BoardFault
    BY <1>1, <1>2, <2>3, ExactCarried DEF BoardFault
  <2> QED BY <1>7, <2>1, <2>2, <2>3 DEF Board
<1> QED BY <1>3, <1>4, <1>5, <1>6, <1>7 DEF Next

(* A level trigger is the first scan past the pre-trigger count that       *)
(* satisfies the comparison, and a level stop the first past the           *)
(* post-trigger count (checkForEvent, its search of the ring from          *)
(* eventSearchPtr), however the board's scans are spread over callbacks,   *)
(* unless a callback comes a whole ring late; and the scans owed before    *)
(* the trigger exist.                                                      *)
THEOREM EventsStayExact == Spec => []EventsExact
<1>1. ExactInv => EventsExact
  <2> SUFFICES ASSUME ExactInv PROVE EventsExact
    OBVIOUS
  <2>1. PretriggerExists
    BY DEF ExactInv, DInv, Sound, Ledger, Owed, Counted, PretriggerExists
  <2>2. ASSUME Unlapped PROVE TriggerIsFirst /\ StopIsFirst
    BY <2>2 DEF ExactInv, Exact, Sound, TriggerIsFirst, StopIsFirst, TriggerFirst, StopFirst
  <2> QED BY <2>1, <2>2 DEF EventsExact
<1> QED BY <1>1, InitExactInv, NextExactInv, PTL DEF Spec
=============================================================================
