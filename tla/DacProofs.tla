----------------------------- MODULE DacProofs -----------------------------
(***************************************************************************)
(* Theorems about DacSession, for every set of channels and waveforms and  *)
(* every size of ring, block, FIFO and counter: its control and its counts *)
(* first, then the samples that it puts out.                               *)
(***************************************************************************)
EXTENDS DacSession, FiniteSetTheorems, SequenceTheorems, WellFoundedInduction, TLAPS

Modes3 == {"voltage", "static", "dynamic"}
Errors == {"None", "PacerOverrun", "BufferUnderrun"}
Conf == [infinite: BOOLEAN, stop: Nat, trig: {"immediate", "software"}]
Samples == {Junk} \cup (Chans \X Nat)

Channel == [mode: Modes3, mdl: BOOLEAN, buf: BOOLEAN, head: 0..MaxLen, size: Nat, room: Nat]

Pde ==
  [chan: [Chans -> Channel], conf: Conf, single: Nat, n: Nat, first: Nat,
   dynamic: BOOLEAN, total: Nat, ring: 1..RingSamples, last: 0..RingSamples,
   pending: BOOLEAN, cut: BOOLEAN, cells: [0..(RingSamples - 1) -> Samples],
   pad: Seq(Samples), active: BOOLEAN, triggered: BOOLEAN, transfer: BOOLEAN,
   error: Errors, count: Nat, old: Nat, dmaed: Nat, removed: Nat,
   dma: BOOLEAN, pacer: BOOLEAN, enabled: SUBSET Chans,
   running: BOOLEAN, die: BOOLEAN, timer: BOOLEAN]

Fed == [at: 0..(RingSamples - 1), end: 0..RingSamples, toPad: BOOLEAN, inPad: BOOLEAN,
        fifo: Seq(Samples), count: Nat, fault: BOOLEAN]

History ==
  [updates: Nat, seen: Nat, clean: BOOLEAN, bad: BOOLEAN, null: BOOLEAN, spill: BOOLEAN,
   overflow: BOOLEAN, stopped: BOOLEAN, late: BOOLEAN, overtook: BOOLEAN,
   owner: 0..Digital, stop: Nat, single: Nat]

Wave == [mode: Modes3, len: Nat \ {0}, bufNew: BOOLEAN, conf: Conf, confNew: BOOLEAN]

Lib == [active: BOOLEAN, numWave: BOOLEAN, todo: Seq(Chans), arming: BOOLEAN,
        wave: [Chans -> Wave], refused: SUBSET Chans]

(* A transfer has memory and a length.                                     *)
Owned(p) == \A c \in Chans : p.chan[c].mdl => p.chan[c].buf /\ p.single > 0

(* While the DMA runs: the pad block has one sample for each waveform, and *)
(* the board is inside the ring or the pad.                                *)
Padded(p) == Len(p.pad) = p.n /\ p.n \in 1..RingSamples /\ (p.dynamic => p.n = 1)
Feeds(p, b) ==
  /\ b.inPad => b.at < Len(p.pad)
  /\ ~b.toPad => b.end <= p.ring

(* What the driver has counted up to update u.                             *)
Counted(p, u) == p.dmaed = u * p.n /\ p.count = u /\ p.old = u % Word

Quieted(p) == ~p.active /\ ~p.dma /\ ~p.pacer
-----------------------------------------------------------------------------
(* The invariant of the driver and the board.                              *)
DacTypes ==
  pde \in Pde /\ board \in Fed /\ hist \in History /\ call \in {"none", "armed", "wait"}

(* The last transfer has the length the driver works with.                 *)
Transferred ==
  /\ Owned(pde)
  /\ \A c \in Chans : pde.chan[c].mdl => hist.owner \in Chans
  /\ hist.owner \in Chans /\ pde.chan[hist.owner].mdl =>
       pde.chan[hist.owner].size = pde.single

Fetching ==
  /\ Len(board.fifo) <= FifoDepth
  /\ pde.dma => Padded(pde) /\ Feeds(pde, board) /\ Len(board.fifo) = FifoDepth

(* The driver's count and the board's.                                     *)
Counting ==
  /\ pde.dmaed <= hist.seen * pde.n
  /\ pde.dma =>
       /\ Counted(pde, hist.seen) /\ board.count = hist.updates % Word
       /\ hist.seen <= hist.updates /\ hist.updates - hist.seen <= MaxGap

(* What runs, and who looks after it.                                      *)
Served ==
  /\ call = "armed" => ~pde.active
  /\ call = "armed" /\ ~hist.overtook => pde.dma
  /\ call # "armed" /\ pde.active /\ ~hist.overtook => pde.dma
  /\ call = "none" /\ pde.active /\ Watched => pde.timer /\ ~pde.die
  /\ call # "armed" /\ pde.error # "None" => Quieted(pde)

(* What the arm found of its waveforms; the second and third parts are why *)
(* it still holds of what a callback of the waveform before leaves.        *)
AnalogQuiet(p) == \A c \in Chans : c = Digital \/ p.chan[c].mode = "voltage"
OddOne(p) == \E c \in Chans : p.chan[c].mdl # (p.chan[c].mode # "voltage")
Fits(h) == ~h.spill /\ ~h.null
Fitting ==
  call = "armed" =>
    /\ hist.owner \in Chans
    /\ pde.dynamic \/ AnalogQuiet(pde) => Fits(hist)
    /\ \/ OddOne(pde)
       \/ ~pde.chan[hist.owner].mdl
       \/ pde.dynamic
       \/ Fits(hist) /\ \A c \in pde.enabled : pde.chan[c].size = pde.single

DacInv == DacTypes /\ Transferred /\ Fetching /\ Counting /\ Served /\ Fitting
-----------------------------------------------------------------------------
(* The invariant of the library.                                           *)
LibTypes == lib \in Lib /\ caller \in Callers

(* Two transfers of an arm are of two channels, whose memory is let go.    *)
ToStart ==
  \A i \in 1..Len(lib.todo) :
    /\ pde.chan[lib.todo[i]].room = 0
    /\ \A j \in 1..Len(lib.todo) : i # j => lib.todo[i] # lib.todo[j]

Believed ==
  caller = "library" =>
    /\ lib.arming => lib.active /\ ToStart
    /\ ~lib.active => /\ ~pde.active /\ ~pde.dma /\ call = "none"
                      /\ \A c \in Chans : pde.chan[c].room = 0
    /\ ModesAgree /\ ~hist.overflow

IInv == DacInv /\ LibTypes /\ Believed
-----------------------------------------------------------------------------
(* Numbers.                                                                *)
LEMMA ModRange ==
  ASSUME NEW a \in Int, NEW b \in Nat \ {0}
  PROVE  a % b \in 0..(b - 1) /\ a = b * (a \div b) + (a % b) /\ a \div b \in Int
OBVIOUS

LEMMA NoMultipleBetween ==
  ASSUME NEW k \in Int, NEW b \in Nat \ {0}, -b < k * b, k * b < b
  PROVE  k = 0
<1>1. CASE k >= 1
  <2>1. k * b = b + (k - 1) * b /\ (k - 1) * b >= 0
    BY <1>1
  <2> QED BY <2>1
<1>2. CASE k <= -1
  <2>1. k * b = (k + 1) * b - b /\ (k + 1) * b <= 0
    BY <1>2
  <2> QED BY <2>1
<1> QED BY <1>1, <1>2

LEMMA DivUnique ==
  ASSUME NEW a \in Int, NEW b \in Nat \ {0}, NEW q \in Int, NEW r \in 0..(b - 1),
         a = q * b + r
  PROVE  a % b = r /\ a \div b = q
<1> DEFINE k == a \div b - q
<1>1. a % b \in 0..(b - 1) /\ a = b * (a \div b) + (a % b) /\ a \div b \in Int
  BY ModRange
<1>2. k \in Int /\ k * b = r - (a % b)
  BY <1>1
<1>3. k = 0
  <2> HIDE DEF k
  <2> QED BY <1>1, <1>2, NoMultipleBetween
<1> QED BY <1>1, <1>2, <1>3

LEMMA DivNat ==
  ASSUME NEW a \in Nat, NEW b \in Nat \ {0}
  PROVE  a \div b \in Nat /\ (a \div b) * b <= a /\ a < (a \div b) * b + b
<1>1. a % b \in 0..(b - 1) /\ a = b * (a \div b) + (a % b) /\ a \div b \in Int
  BY ModRange
<1> DEFINE q == a \div b
<1>2. q \in Int /\ a = b * q + (a % b)
  BY <1>1
<1> HIDE DEF q
<1>3. q >= 0
  <2>1. SUFFICES ASSUME q <= -1 PROVE FALSE
    BY <1>2
  <2>2. b * q = b * (q + 1) - b /\ b * (q + 1) <= 0
    BY <1>2, <2>1
  <2> QED BY <1>1, <1>2, <2>2
<1>4. b * q = q * b
  BY <1>2
<1> QED BY <1>1, <1>2, <1>3, <1>4 DEF q

LEMMA ProductNat ==
  ASSUME NEW a \in Nat, NEW b \in Nat
  PROVE  a * b \in Nat /\ a * b = b * a
OBVIOUS

LEMMA ProductPos ==
  ASSUME NEW a \in Nat \ {0}, NEW b \in Nat \ {0}
  PROVE  a * b \in Nat \ {0} /\ a <= a * b /\ b <= a * b
<1>1. a * b = a + a * (b - 1) /\ a * (b - 1) \in Nat
  OBVIOUS
<1>2. a * b = b + (a - 1) * b /\ (a - 1) * b \in Nat
  OBVIOUS
<1> QED BY <1>1, <1>2

(* A set of natural numbers has a least element.                           *)
LEMMA LeastNatural ==
  ASSUME NEW T \in SUBSET Nat, T # {}
  PROVE  \E x \in T : \A y \in T : x <= y
<1>1. PICK x \in T : \A y \in T : ~(<<y, x>> \in OpToRel(<, Nat))
  BY WFMin, NatLessThanWellFounded
<1>2. \A y \in T : ~(y < x)
  BY <1>1 DEF OpToRel
<1> QED BY <1>2

LEMMA FiniteGreatest ==
  ASSUME NEW S \in SUBSET Nat, IsFiniteSet(S), S # {}
  PROVE  \E x \in S : \A y \in S : y <= x
<1> DEFINE Bad == {R \in SUBSET S : R # {} /\ ~\E x \in R : \A y \in R : y <= x}
           T == {Cardinality(R) : R \in Bad}
<1>1. SUFFICES ASSUME Bad # {} PROVE FALSE
  OBVIOUS
<1>2. \A R \in SUBSET S : IsFiniteSet(R) /\ Cardinality(R) \in Nat
  BY FS_Subset, FS_CardinalityType
<1>3. T \in SUBSET Nat /\ T # {}
  BY <1>1, <1>2
<1>4. PICK n \in T : \A y \in T : n <= y
  BY <1>3, LeastNatural
<1>5. PICK R \in Bad : n = Cardinality(R)
  BY <1>4
<1>6. PICK m \in R : TRUE
  BY <1>5
<1> DEFINE Q == R \ {m}
<1>7. Cardinality(Q) = n - 1 /\ n - 1 \in Nat
  <2>1. Cardinality(Q) = n - 1
    BY <1>2, <1>5, <1>6, FS_RemoveElement
  <2>2. Cardinality(Q) \in Nat
    BY <1>2, <1>5
  <2> QED BY <2>1, <2>2
<1>8. Q \notin Bad
  <2>1. Cardinality(Q) \notin T
    <3> HIDE DEF T
    <3> QED BY <1>3, <1>4, <1>7
  <2> QED BY <2>1
<1>9. Q # {}
  <2>1. m \in Nat /\ ~\A y \in R : y <= m
    BY <1>5, <1>6
  <2> QED BY <2>1
<1>10. PICK g \in Q : \A y \in Q : y <= g
  BY <1>5, <1>8, <1>9
<1>11. R \in SUBSET Nat /\ ~\E x \in R : \A y \in R : y <= x
  BY <1>5
<1> HIDE DEF Bad, T
<1> QED BY <1>6, <1>10, <1>11

LEMMA MaxLenIsLongest == MaxLen \in Lens /\ MaxLen \in Nat \ {0} /\ \A n \in Lens : n <= MaxLen
<1>1. Lens \in SUBSET Nat /\ Lens # {} /\ IsFiniteSet(Lens) /\ Lens \subseteq Nat \ {0}
  BY DacAssumption
<1>2. \E n \in Lens : \A m \in Lens : m <= n
  BY <1>1, FiniteGreatest
<1>3. MaxLen \in Lens /\ \A n \in Lens : n <= MaxLen
  BY <1>2 DEF MaxLen
<1> QED BY <1>1, <1>3
-----------------------------------------------------------------------------
(* Sets of channels, and their members in order.                           *)
LEMMA ChannelSet ==
  ASSUME NEW S \in SUBSET (0..Digital)
  PROVE  IsFiniteSet(S) /\ Cardinality(S) \in Nat
<1>1. IsFiniteSet(0..Digital)
  <2>1. 0 \in Int /\ Digital \in Int
    BY DEF Digital
  <2> QED BY <2>1, FS_Interval
<1> QED BY <1>1, FS_Subset, FS_CardinalityType

InOrderOf(S, s) ==
  /\ s \in [1..Cardinality(S) -> S]
  /\ \A i, j \in 1..Cardinality(S) : i < j => s[i] < s[j]

LEMMA HasOrder ==
  ASSUME NEW S \in SUBSET (0..Digital)
  PROVE  \E s : InOrderOf(S, s)
<1> DEFINE Bad == {R \in SUBSET (0..Digital) : ~\E s : InOrderOf(R, s)}
           T == {Cardinality(R) : R \in Bad}
<1>1. SUFFICES ASSUME Bad # {} PROVE FALSE
  OBVIOUS
<1>2. T \in SUBSET Nat /\ T # {}
  BY <1>1, ChannelSet
<1>3. PICK n \in T : \A y \in T : n <= y
  BY <1>2, LeastNatural
<1>4. PICK R \in Bad : n = Cardinality(R)
  BY <1>3
<1>5. R \in SUBSET (0..Digital) /\ IsFiniteSet(R) /\ n \in Nat /\ ~\E s : InOrderOf(R, s)
  BY <1>4, ChannelSet
<1>6. R # {}
  <2>1. SUFFICES ASSUME R = {} PROVE FALSE
    OBVIOUS
  <2>2. Cardinality({}) = 0
    BY FS_EmptySet
  <2>3. InOrderOf({}, [i \in 1..0 |-> i])
    BY <2>2 DEF InOrderOf
  <2> QED BY <1>5, <2>1, <2>3
<1>7. PICK m \in R : \A y \in R : y <= m
  <2>1. R \in SUBSET Nat
    BY <1>5 DEF Digital
  <2> QED BY <1>5, <1>6, <2>1, FiniteGreatest
<1> DEFINE Q == R \ {m}
<1>8. Cardinality(Q) = n - 1
  BY <1>4, <1>5, FS_RemoveElement
<1>9. n - 1 \in Nat
  <2>1. Q \in SUBSET (0..Digital)
    BY <1>5
  <2>2. Cardinality(Q) \in Nat
    BY <2>1, ChannelSet
  <2> QED BY <1>8, <2>2
<1>10. PICK s : InOrderOf(Q, s)
  <2>1. Cardinality(Q) \notin T
    <3> HIDE DEF T
    <3> QED BY <1>2, <1>3, <1>8, <1>9
  <2> QED BY <1>5, <2>1
<1>11. InOrderOf(R, [i \in 1..n |-> IF i = n THEN m ELSE s[i]])
  <2>1. \A i \in 1..n : i # n => i \in 1..(n - 1)
    BY <1>5
  <2>2. \A i \in 1..(n - 1) : s[i] \in R /\ s[i] # m /\ s[i] < m
    <3>1. \A i \in 1..(n - 1) : s[i] \in Q
      BY <1>8, <1>10 DEF InOrderOf
    <3>2. SUFFICES ASSUME NEW x \in Q PROVE x \in R /\ x # m /\ x < m
      BY <3>1
    <3>3. x \in R /\ x # m /\ x \in Int /\ m \in Int /\ x <= m
      BY <1>5, <1>7 DEF Digital
    <3> QED BY <3>3
  <2>3. \A i, j \in 1..(n - 1) : i < j => s[i] < s[j]
    BY <1>8, <1>10 DEF InOrderOf
  <2> HIDE DEF Q, T, Bad
  <2> QED BY <1>4, <1>5, <1>9, <2>1, <2>2, <2>3 DEF InOrderOf
<1> QED BY <1>5, <1>11

LEMMA Ordered ==
  ASSUME NEW S \in SUBSET (0..Digital)
  PROVE  /\ InOrder(S) \in [1..Cardinality(S) -> S]
         /\ \A i, j \in 1..Cardinality(S) : i # j => InOrder(S)[i] # InOrder(S)[j]
         /\ \A c \in S : \E i \in 1..Cardinality(S) : InOrder(S)[i] = c
         /\ InOrder(S) \in Seq(S) /\ Len(InOrder(S)) = Cardinality(S)
<1> DEFINE N == Cardinality(S)
           s == InOrder(S)
<1>1. IsFiniteSet(S) /\ N \in Nat
  BY ChannelSet
<1>2. \E t \in [1..N -> S] : \A i, j \in 1..N : i < j => t[i] < t[j]
  BY HasOrder DEF InOrderOf
<1>3. s \in [1..N -> S] /\ \A i, j \in 1..N : i < j => s[i] < s[j]
  BY <1>2 DEF InOrder
<1> HIDE DEF s
<1>4. \A i, j \in 1..N : i # j => s[i] # s[j]
  <2>1. SUFFICES ASSUME NEW i \in 1..N, NEW j \in 1..N, i < j PROVE s[i] # s[j]
    BY <1>1
  <2>2. s[i] < s[j] /\ s[i] \in S /\ s[j] \in S
    BY <1>3, <2>1
  <2>3. \A x \in 0..Digital : x \in Int
    BY DEF Digital
  <2>4. s[i] \in 0..Digital /\ s[j] \in 0..Digital
    BY <2>2
  <2> QED BY <2>2, <2>3, <2>4
<1>5. s \in Seq(S) /\ Len(s) = N
  BY <1>1, <1>3
<1>6. \A c \in S : \E i \in 1..N : s[i] = c
  <2>1. IsFiniteSet(1..N) /\ Cardinality(1..N) = N
    <3>1. 1 \in Int /\ N \in Int /\ N - 1 + 1 = N
      BY <1>1
    <3>2. IsFiniteSet(1..N) /\ Cardinality(1..N) = IF 1 > N THEN 0 ELSE N - 1 + 1
      BY <3>1, FS_Interval
    <3> QED BY <1>1, <3>1, <3>2
  <2>2. s \in Injection(1..N, S)
    BY <1>3, <1>4 DEF Injection, IsInjective
  <2>3. s \in Surjection(1..N, S)
    BY <1>1, <2>1, <2>2, FS_Injection
  <2> QED BY <2>3 DEF Surjection
<1> QED BY <1>3, <1>4, <1>5, <1>6 DEF s
-----------------------------------------------------------------------------
(* What the operations of the driver make of its state.                    *)

(* The parts an operation leaves as they were.                             *)
SameTimer(p, q) == q.running = p.running /\ q.die = p.die /\ q.timer = p.timer
SameCount(p, q) == q.n = p.n /\ q.count = p.count /\ q.old = p.old /\ q.dmaed = p.dmaed
SameRun(p, q)   == /\ q.active = p.active /\ q.dma = p.dma /\ q.pacer = p.pacer
                   /\ q.enabled = p.enabled
SameAsked(p, q) == q.conf = p.conf /\ q.single = p.single
SameChans(p, q) ==
  \A c \in Chans : /\ q.chan[c].mode = p.chan[c].mode /\ q.chan[c].mdl = p.chan[c].mdl
                   /\ q.chan[c].buf = p.chan[c].buf /\ q.chan[c].size = p.chan[c].size

LEMMA Sizes ==
  /\ RingSamples \in Nat \ {0} /\ 0 \in 0..MaxLen /\ 0 \in 0..RingSamples
  /\ RingSamples \in 1..RingSamples /\ NoSamples \in [0..(RingSamples - 1) -> Samples]
  /\ Junk \in Samples /\ Junk \in Seq(Samples)
<1>1. RingSamples \in Nat \ {0} /\ MaxLen \in Nat
  BY DacAssumption, MaxLenIsLongest
<1> QED BY <1>1 DEF NoSamples, Samples, Junk

LEMMA QuietPde ==
  ASSUME NEW r \in Pde, NEW ch \in [Chans -> Channel]
  PROVE  [r EXCEPT !.pacer = FALSE, !.enabled = {}, !.dma = FALSE,
                   !.active = FALSE, !.triggered = FALSE, !.chan = ch] \in Pde
BY DEF Pde

LEMMA DisarmFacts ==
  ASSUME NEW p \in Pde, NEW q, q = Disarm(p)
  PROVE  /\ q \in Pde
         /\ ~q.active /\ ~q.dma /\ ~q.pacer /\ q.enabled = {} /\ ~q.dynamic
         /\ SameTimer(p, q) /\ SameAsked(p, q) /\ SameChans(p, q)
         /\ q.n = p.n /\ q.dmaed = p.dmaed /\ q.error = p.error
         /\ \A c \in Chans : q.chan[c].room = 0
<1>1. Rest(p) \in Pde
  BY Sizes DEF Rest, Pde
<1>2. [c \in Chans |-> [p.chan[c] EXCEPT !.room = 0]] \in [Chans -> Channel]
  <2>1. SUFFICES ASSUME NEW c \in Chans PROVE [p.chan[c] EXCEPT !.room = 0] \in Channel
    OBVIOUS
  <2>2. p.chan[c] \in Channel
    BY DEF Pde
  <2> QED BY <2>2 DEF Channel
<1>3. q \in Pde
  <2> DEFINE ch == [c \in Chans |-> [p.chan[c] EXCEPT !.room = 0]]
             r == Rest(p)
  <2>1. q = [r EXCEPT !.pacer = FALSE, !.enabled = {}, !.dma = FALSE,
                      !.active = FALSE, !.triggered = FALSE, !.chan = ch]
    BY DEF Disarm
  <2> HIDE DEF r, ch
  <2>2. r \in Pde
    BY <1>1 DEF r
  <2>3. ch \in [Chans -> Channel]
    BY <1>2 DEF ch
  <2> QED BY <2>1, <2>2, <2>3, QuietPde
<1>4. /\ ~q.active /\ ~q.dma /\ ~q.pacer /\ q.enabled = {} /\ ~q.dynamic
      /\ SameTimer(p, q) /\ SameAsked(p, q)
      /\ q.n = p.n /\ q.dmaed = p.dmaed /\ q.error = p.error
      /\ q.chan = [c \in Chans |-> [p.chan[c] EXCEPT !.room = 0]]
  BY DEF Disarm, Rest, SameTimer, SameAsked, Pde
<1>5. ASSUME NEW c \in Chans
      PROVE  /\ q.chan[c].mode = p.chan[c].mode /\ q.chan[c].mdl = p.chan[c].mdl
             /\ q.chan[c].buf = p.chan[c].buf /\ q.chan[c].size = p.chan[c].size
             /\ q.chan[c].room = 0
  <2>1. p.chan[c] \in Channel /\ q.chan[c] = [p.chan[c] EXCEPT !.room = 0]
    BY <1>4 DEF Pde
  <2> QED BY <2>1 DEF Channel
<1> QED BY <1>3, <1>4, <1>5 DEF SameChans

Stopped(p, q) ==
  /\ q.die /\ q.running = p.running /\ q.timer = p.timer
  /\ SameRun(p, q) /\ SameCount(p, q) /\ SameAsked(p, q)
  /\ q.dynamic = p.dynamic /\ q.error = p.error /\ q.pad = p.pad
  /\ q.ring = p.ring /\ q.total = p.total
  /\ \A c \in Chans :
       /\ q.chan[c].mode = p.chan[c].mode /\ q.chan[c].size = p.chan[c].size
       /\ q.chan[c].room = p.chan[c].room
       /\ c = Digital => q.chan[c] = p.chan[c]
       /\ c # Digital => q.chan[c].buf = FALSE
                         /\ (q.chan[c].mdl <=> p.chan[c].mdl /\ ~p.chan[c].buf)

LEMMA StopFacts ==
  ASSUME NEW p \in Pde, NEW q, q = Stop(p)
  PROVE  q \in Pde /\ Stopped(p, q)
<1> DEFINE ch == [c \in Chans |->
                    IF c = Digital THEN p.chan[c]
                    ELSE [p.chan[c] EXCEPT !.buf = FALSE, !.mdl = @ /\ ~p.chan[c].buf]]
<1>1. ch \in [Chans -> Channel]
  <2>1. SUFFICES ASSUME NEW c \in Chans PROVE ch[c] \in Channel
    OBVIOUS
  <2>2. p.chan[c] \in Channel
    BY DEF Pde
  <2>3. (p.chan[c].mdl /\ ~p.chan[c].buf) \in BOOLEAN
    OBVIOUS
  <2> QED BY <2>2, <2>3 DEF Channel
<1>2. q = [p EXCEPT !.transfer = FALSE, !.die = TRUE, !.chan = ch]
  BY DEF Stop
<1>3. \A c \in Chans :
        /\ ch[c].mode = p.chan[c].mode /\ ch[c].size = p.chan[c].size
        /\ ch[c].room = p.chan[c].room
        /\ c = Digital => ch[c] = p.chan[c]
        /\ c # Digital => ch[c].buf = FALSE /\ (ch[c].mdl <=> p.chan[c].mdl /\ ~p.chan[c].buf)
  <2>1. SUFFICES ASSUME NEW c \in Chans
                 PROVE  /\ ch[c].mode = p.chan[c].mode /\ ch[c].size = p.chan[c].size
                        /\ ch[c].room = p.chan[c].room
                        /\ c = Digital => ch[c] = p.chan[c]
                        /\ c # Digital => ch[c].buf = FALSE
                             /\ (ch[c].mdl <=> p.chan[c].mdl /\ ~p.chan[c].buf)
    OBVIOUS
  <2>2. p.chan[c] \in Channel
    BY DEF Pde
  <2> QED BY <2>2 DEF Channel
<1> HIDE DEF ch
<1>4. q \in Pde
  BY <1>1, <1>2 DEF Pde
<1>5. q.chan = ch
  BY <1>2 DEF Pde
<1>6. /\ q.die /\ q.running = p.running /\ q.timer = p.timer
      /\ SameRun(p, q) /\ SameCount(p, q) /\ SameAsked(p, q)
      /\ q.dynamic = p.dynamic /\ q.error = p.error /\ q.pad = p.pad
      /\ q.ring = p.ring /\ q.total = p.total
  BY <1>2 DEF Pde, SameRun, SameCount, SameAsked
<1> QED BY <1>3, <1>4, <1>5, <1>6 DEF Stopped

LEMMA SetModeFacts ==
  ASSUME NEW p \in Pde, NEW c \in Chans, NEW m \in Modes3, NEW q, q = SetMode(p, c, m)
  PROVE  /\ q \in Pde
         /\ SameTimer(p, q) /\ SameCount(p, q) /\ SameAsked(p, q)
         /\ q.active = p.active /\ q.dma = p.dma /\ q.pacer = p.pacer
         /\ q.dynamic = p.dynamic /\ q.error = p.error /\ q.pad = p.pad
         /\ q.ring = p.ring /\ q.total = p.total
         /\ \A d \in Chans :
              /\ q.chan[d].mdl = p.chan[d].mdl /\ q.chan[d].buf = p.chan[d].buf
              /\ q.chan[d].size = p.chan[d].size /\ q.chan[d].room = p.chan[d].room
              /\ d # c \/ ModeRefused(p, c, m) => q.chan[d].mode = p.chan[d].mode
         /\ ~ModeRefused(p, c, m) => q.chan[c].mode = m
<1>1. CASE ModeRefused(p, c, m)
  <2>1. q = p
    BY <1>1 DEF SetMode
  <2> QED BY <1>1, <2>1 DEF SameTimer, SameCount, SameAsked
<1>2. CASE ~ModeRefused(p, c, m)
  <2> DEFINE ch == [p.chan EXCEPT ![c].mode = m]
             en == p.enabled \ {c}
  <2>1. q = [p EXCEPT !.chan = ch, !.enabled = en]
    BY <1>2 DEF SetMode, Pde
  <2>2. ch \in [Chans -> Channel] /\ en \in SUBSET Chans
    BY DEF Pde, Channel
  <2>3. /\ ch[c].mode = m
        /\ \A d \in Chans :
             /\ ch[d].mdl = p.chan[d].mdl /\ ch[d].buf = p.chan[d].buf
             /\ ch[d].size = p.chan[d].size /\ ch[d].room = p.chan[d].room
             /\ d # c => ch[d].mode = p.chan[d].mode
    BY DEF Pde, Channel
  <2> HIDE DEF ch, en
  <2>4. q \in Pde
    BY <2>1, <2>2 DEF Pde
  <2>5. q.chan = ch
    BY <2>1 DEF Pde
  <2>6. /\ SameTimer(p, q) /\ SameCount(p, q) /\ SameAsked(p, q)
        /\ q.active = p.active /\ q.dma = p.dma /\ q.pacer = p.pacer
        /\ q.dynamic = p.dynamic /\ q.error = p.error /\ q.pad = p.pad
        /\ q.ring = p.ring /\ q.total = p.total
    BY <2>1 DEF Pde, SameTimer, SameCount, SameAsked
  <2> QED BY <1>2, <2>3, <2>4, <2>5, <2>6
<1> QED BY <1>1, <1>2

Started(p, c, len, q) ==
  /\ SameTimer(p, q) /\ SameCount(p, q) /\ SameRun(p, q)
  /\ q.dynamic = p.dynamic /\ q.error = p.error /\ q.pad = p.pad
  /\ q.ring = p.ring /\ q.total = p.total /\ q.single = len /\ q.conf = p.conf
  /\ q.chan[c].mdl /\ q.chan[c].buf /\ q.chan[c].size = len
  /\ q.chan[c].mode = p.chan[c].mode
  /\ q.chan[c].room = IF p.chan[c].room = 0 THEN len ELSE p.chan[c].room
  /\ \A d \in Chans : d # c => q.chan[d] = p.chan[d]

LEMMA StartFacts ==
  ASSUME NEW p \in Pde, NEW c \in Chans, NEW len \in Nat \ {0}, NEW q, q = Start(p, c, len)
  PROVE  q \in Pde /\ Started(p, c, len, q)
<1> DEFINE x == [p.chan[c] EXCEPT !.mdl = TRUE, !.buf = TRUE, !.head = 0, !.size = len,
                                  !.room = IF p.chan[c].room = 0 THEN len ELSE p.chan[c].room]
           ch == [p.chan EXCEPT ![c] = x]
<1>1. q = [p EXCEPT !.chan = ch, !.single = len, !.transfer = TRUE]
  BY DEF Start
<1>2. x \in Channel /\ x.mdl /\ x.buf /\ x.size = len /\ x.mode = p.chan[c].mode
      /\ x.room = IF p.chan[c].room = 0 THEN len ELSE p.chan[c].room
  <2>1. p.chan[c] \in Channel
    BY DEF Pde
  <2>2. (IF p.chan[c].room = 0 THEN len ELSE p.chan[c].room) \in Nat
    BY <2>1 DEF Channel
  <2> QED BY <2>1, <2>2, Sizes DEF Channel
<1> HIDE DEF x
<1>3. ch \in [Chans -> Channel] /\ ch[c] = x /\ \A d \in Chans : d # c => ch[d] = p.chan[d]
  BY <1>2 DEF Pde
<1> HIDE DEF ch
<1>4. q \in Pde
  <2>1. len \in Nat /\ ch \in [Chans -> Channel]
    BY <1>3
  <2> QED BY <1>1, <2>1 DEF Pde
<1>5. q.chan = ch
  BY <1>1 DEF Pde
<1>6. /\ SameTimer(p, q) /\ SameCount(p, q) /\ SameRun(p, q)
      /\ q.dynamic = p.dynamic /\ q.error = p.error /\ q.pad = p.pad
      /\ q.ring = p.ring /\ q.total = p.total /\ q.single = len /\ q.conf = p.conf
  BY <1>1 DEF Pde, SameTimer, SameCount, SameRun
<1> QED BY <1>2, <1>3, <1>4, <1>5, <1>6 DEF Started
-----------------------------------------------------------------------------
(* dacSetupBuffer.                                                         *)
Held(p) == {c \in Chans : p.chan[c].mdl}

LEMMA WavesCounted ==
  ASSUME NEW p
  PROVE  /\ Held(p) \in SUBSET (0..Digital) /\ Waves(p, "static") \in SUBSET (0..Digital)
         /\ IsFiniteSet(Held(p)) /\ Cardinality(Held(p)) \in Nat
         /\ Cardinality(Waves(p, "static")) \in Nat
         /\ Cardinality(Static(p)) \in Nat /\ Cardinality(Dynamic(p)) \in Nat
         /\ NumWaves(p) \in Nat /\ NumWaves(p) <= Cardinality(Held(p))
         /\ Cardinality(Static(p)) <= Cardinality(Waves(p, "static"))
         /\ Static(p) = {} => NumWaves(p) = Cardinality(Dynamic(p))
         /\ Dynamic(p) = {} => NumWaves(p) = Cardinality(Static(p))
<1> DEFINE S == Static(p)
           D == Dynamic(p)
           H == Held(p)
           W == Waves(p, "static")
<1>1. /\ H \in SUBSET (0..Digital) /\ W \in SUBSET (0..Digital)
      /\ S \in SUBSET (0..Digital) /\ D \in SUBSET (0..Digital)
  BY DacAssumption DEF Held, Waves, Static, Dynamic
<1>2. /\ IsFiniteSet(H) /\ Cardinality(H) \in Nat /\ IsFiniteSet(W) /\ Cardinality(W) \in Nat
      /\ IsFiniteSet(S) /\ Cardinality(S) \in Nat /\ IsFiniteSet(D) /\ Cardinality(D) \in Nat
  BY <1>1, ChannelSet
<1>3. S \cap D = {} /\ (S \cup D) \subseteq H /\ S \subseteq W
  BY DEF Held, Static, Dynamic, Waves
<1>4. Cardinality(S \cup D) = Cardinality(S) + Cardinality(D)
  <2>1. Cardinality(S \cup D) = Cardinality(S) + Cardinality(D) - Cardinality(S \cap D)
    BY <1>2, FS_Union
  <2>2. Cardinality({}) = 0
    BY FS_EmptySet
  <2>3. Cardinality(S \cap D) = 0
    BY <1>3, <2>2
  <2> HIDE DEF S, D
  <2> QED BY <1>2, <2>1, <2>3
<1>5. Cardinality(S \cup D) <= Cardinality(H)
  BY <1>2, <1>3, FS_Subset
<1>6. Cardinality(S) <= Cardinality(W)
  BY <1>2, <1>3, FS_Subset
<1>7. Cardinality({}) = 0
  BY FS_EmptySet
<1>8. NumWaves(p) = Cardinality(S) + Cardinality(D)
  BY DEF NumWaves
<1> HIDE DEF S, D, H, W
<1>9. /\ NumWaves(p) \in Nat /\ NumWaves(p) <= Cardinality(H)
      /\ S = {} => NumWaves(p) = Cardinality(D)
      /\ D = {} => NumWaves(p) = Cardinality(S)
  BY <1>2, <1>4, <1>5, <1>7, <1>8
<1> QED BY <1>1, <1>2, <1>6, <1>9 DEF S, D, H, W

LEMMA SetupOk ==
  ASSUME NEW p, SetupError(p) = "None"
  PROVE  /\ Static(p) = {} \/ Dynamic(p) = {}
         /\ NumWaves(p) # 0 /\ SizesEqual(p)
         /\ Dynamic(p) # {} => ~(NumWaves(p) > 1)
         /\ Dynamic(p) = {} => ~(RingSamples < p.single * NumWaves(p))
BY DEF SetupError

(* A period of a static waveform fits the ring.                            *)
LEMMA RingOfPeriods ==
  ASSUME NEW single \in Nat \ {0}, NEW n \in Nat \ {0}, single * n <= RingSamples
  PROVE  /\ single * n \in 1..RingSamples /\ n <= RingSamples
         /\ RingSamples \div (single * n) \in Nat
         /\ (RingSamples \div (single * n)) * single * n \in 1..RingSamples
         /\ single * n * (RingSamples \div (single * n)) \in 1..RingSamples
<1> DEFINE k == single * n
           d == RingSamples \div k
<1>1. k \in Nat \ {0} /\ n <= k
  BY ProductPos
<1>2. k <= RingSamples
  OBVIOUS
<1>3. d * single * n = d * (single * n)
  <2>1. d \in Int
    BY <1>1, Sizes, ModRange
  <2> HIDE DEF d
  <2>2. single \in Int /\ n \in Int
    OBVIOUS
  <2> QED BY <2>1, <2>2
<1> HIDE DEF k
<1>4. d \in Nat /\ d * k <= RingSamples /\ RingSamples < d * k + k
  BY <1>1, Sizes, DivNat
<1> HIDE DEF d
<1>5. d * k >= 1 /\ d * k = k * d /\ d * k \in Int
  <2>1. d * k \in Nat /\ d * k = k * d
    BY <1>1, <1>4, ProductNat
  <2>2. d # 0
    BY <1>1, <1>2, <1>4, Sizes
  <2> QED BY <1>1, <1>4, <2>1, <2>2, ProductPos
<1> QED BY <1>1, <1>2, <1>3, <1>4, <1>5, Sizes DEF k, d

LEMMA SetUpPde ==
  ASSUME NEW p \in Pde, NEW n \in Nat, NEW f \in Nat, NEW t \in Nat, NEW d \in BOOLEAN,
         NEW pd \in Seq(Samples), NEW rg \in 1..RingSamples
  PROVE  [p EXCEPT !.n = n, !.first = f, !.pending = FALSE, !.cut = FALSE, !.total = t,
                   !.dynamic = d, !.pad = pd, !.ring = rg] \in Pde
BY DEF Pde

LEMMA SetupBufferFacts ==
  ASSUME NEW p \in Pde, Owned(p), SetupError(p) = "None", NEW q, q = SetupBuffer(p)
  PROVE  /\ q \in Pde /\ Padded(q) /\ q.n = NumWaves(p)
         /\ SameTimer(p, q) /\ SameAsked(p, q) /\ q.chan = p.chan
         /\ q.active = p.active /\ q.dma = p.dma /\ q.pacer = p.pacer
         /\ q.dmaed = p.dmaed /\ q.count = p.count /\ q.old = p.old /\ q.error = p.error
         /\ q.dynamic <=> Dynamic(p) # {}
         /\ ~q.pending
         /\ ~q.dynamic => q.single \in Nat \ {0} /\ q.single * q.n <= RingSamples
<1> DEFINE n == NumWaves(p)
           f == p.chan[Transfers(p)[1]].size
           t == p.conf.stop * n
           d == IF Dynamic(p) # {} THEN TRUE ELSE FALSE
           pd == [i \in 1..n |-> Junk]
           rg == IF d THEN RingSamples ELSE (RingSamples \div (p.single * n)) * p.single * n
<1>1. n \in Nat \ {0} /\ n <= Cardinality(Held(p))
  BY WavesCounted, SetupOk
<1>2. f \in Nat
  <2>1. 1 \in 1..Cardinality(Held(p))
    BY <1>1, WavesCounted
  <2>2. Transfers(p)[1] \in Held(p)
    BY <2>1, WavesCounted, Ordered DEF Transfers, Held
  <2> QED BY <2>2 DEF Held, Pde, Channel
<1>3. t \in Nat
  <2>1. p.conf.stop \in Nat
    BY DEF Pde, Conf
  <2> QED BY <1>1, <2>1, ProductNat
<1>4. pd \in Seq(Samples) /\ Len(pd) = n
  BY <1>1, Sizes
<1>5. p.single \in Nat \ {0}
  <2>1. \E c \in Chans : p.chan[c].mdl
    <3>1. Held(p) # {}
      <4>1. Cardinality({}) = 0
        BY FS_EmptySet
      <4> QED BY <1>1, <4>1
    <3> QED BY <3>1 DEF Held
  <2> QED BY <2>1 DEF Owned, Pde
<1>6. rg \in 1..RingSamples /\ n \in 1..RingSamples /\ (~d => p.single * n <= RingSamples) /\ (d => n = 1)
  <2>1. CASE Dynamic(p) # {}
    <3>1. ~(n > 1)
      BY <2>1, SetupOk
    <3>2. rg = RingSamples
      BY <2>1
    <3> QED BY <1>1, <2>1, <3>1, <3>2, Sizes
  <2>2. CASE Dynamic(p) = {}
    <3>1. p.single * n <= RingSamples
      <4>1. p.single * n \in Nat
        BY <1>1, <1>5, ProductNat
      <4>2. ~(RingSamples < p.single * n)
        BY <2>2, SetupOk
      <4> QED BY <4>1, <4>2, Sizes
    <3>2. rg \in 1..RingSamples /\ n <= RingSamples
      BY <1>1, <1>5, <2>2, <3>1, RingOfPeriods
    <3> QED BY <1>1, <2>2, <3>1, <3>2
  <2> QED BY <2>1, <2>2
<1>7. q = [p EXCEPT !.n = n, !.first = f, !.pending = FALSE, !.cut = FALSE, !.total = t,
                    !.dynamic = d, !.pad = pd, !.ring = rg]
  <2> DEFINE r == [p EXCEPT !.n = n, !.first = f, !.pending = FALSE, !.cut = FALSE, !.total = t,
                    !.dynamic = (Dynamic(p) # {}), !.pad = pd]
  <2>1. q = IF r.dynamic THEN [r EXCEPT !.ring = RingSamples]
            ELSE [r EXCEPT !.ring = (RingSamples \div (p.single * n)) * p.single * n]
    BY DEF SetupBuffer
  <2>2. (Dynamic(p) # {}) = d
    OBVIOUS
  <2>3. r.dynamic = d
    BY <2>2 DEF Pde
  <2> QED BY <2>1, <2>2, <2>3 DEF Pde
<1>8. d \in BOOLEAN /\ (d <=> Dynamic(p) # {})
  OBVIOUS
<1> HIDE DEF n, f, t, d, pd, rg
<1>9. q \in Pde
  <2>1. n \in Nat
    BY <1>1
  <2>2. rg \in 1..RingSamples
    BY <1>6
  <2>3. pd \in Seq(Samples)
    BY <1>4
  <2>4. d \in BOOLEAN
    BY <1>8
  <2>5. [p EXCEPT !.n = n, !.first = f, !.pending = FALSE, !.cut = FALSE, !.total = t,
                  !.dynamic = d, !.pad = pd, !.ring = rg] \in Pde
    BY <1>2, <1>3, <2>1, <2>2, <2>3, <2>4, SetUpPde
  <2> QED BY <1>7, <2>5
<1>10. /\ q.n = n /\ q.pad = pd /\ q.dynamic = d /\ ~q.pending
       /\ SameTimer(p, q) /\ SameAsked(p, q) /\ q.chan = p.chan
       /\ q.active = p.active /\ q.dma = p.dma /\ q.pacer = p.pacer
       /\ q.dmaed = p.dmaed /\ q.count = p.count /\ q.old = p.old /\ q.error = p.error
  BY <1>7 DEF Pde, SameTimer, SameAsked
<1>11. Padded(q)
  BY <1>4, <1>6, <1>10 DEF Padded
<1>12. ~q.dynamic => q.single \in Nat \ {0} /\ q.single * q.n <= RingSamples
  BY <1>5, <1>6, <1>10 DEF SameAsked
<1>13. q.n = NumWaves(p)
  BY <1>10 DEF n
<1> QED BY <1>8, <1>9, <1>10, <1>11, <1>12, <1>13
-----------------------------------------------------------------------------
(* What dacArm does between dacSetupBuffer and the start of the DMA.       *)
Carried(p, q) ==
  /\ SameTimer(p, q) /\ SameAsked(p, q) /\ SameRun(p, q) /\ SameCount(p, q)
  /\ SameChans(p, q) /\ \A c \in Chans : q.chan[c].room = p.chan[c].room
  /\ q.dynamic = p.dynamic /\ q.error = p.error /\ q.ring = p.ring /\ q.total = p.total

LEMMA CarriedOn ==
  ASSUME NEW p, NEW q, NEW r, Carried(p, q), Carried(q, r)
  PROVE  Carried(p, r)
BY DEF Carried, SameTimer, SameAsked, SameRun, SameCount, SameChans

LEMMA CarriedBack ==
  ASSUME NEW p
  PROVE  Carried(p, p)
BY DEF Carried, SameTimer, SameAsked, SameRun, SameCount, SameChans

LEMMA SampleType ==
  ASSUME NEW p, NEW c \in Chans, NEW i \in Nat
  PROVE  Sample(p, c, i) \in Samples
BY DEF Sample, Samples

LEMMA PeriodType ==
  ASSUME NEW p \in Pde
  PROVE  LET size == Cardinality(Waves(p, "static")) * p.single
         IN  /\ size \in Nat /\ Cardinality(DOMAIN Period(p)) = size
             /\ \A j \in 0..(size - 1) : Period(p)[j] \in Samples
<1> DEFINE W == Waves(p, "static")
           w == InOrder(W)
           L == Cardinality(W)
           size == L * p.single
<1>1. W \in SUBSET (0..Digital) /\ L \in Nat
  BY WavesCounted
<1>2. p.single \in Nat
  BY DEF Pde
<1>3. size \in Nat
  BY <1>1, <1>2, ProductNat
<1>4. w \in [1..L -> W] /\ Len(w) = L
  BY <1>1, Ordered
<1>5. Period(p) = [i \in 0..(size - 1) |->
                     LET c == w[(i % L) + 1] IN Sample(p, c, p.chan[c].head + (i \div L))]
  BY <1>4 DEF Period
<1>6. DOMAIN Period(p) = 0..(size - 1)
  BY <1>5
<1>7. Cardinality(0..(size - 1)) = size
  <2> HIDE DEF size
  <2>1. 0 \in Int /\ size - 1 \in Int
    BY <1>3
  <2>2. Cardinality(0..(size - 1)) = IF 0 > size - 1 THEN 0 ELSE size - 1 - 0 + 1
    BY <2>1, FS_Interval
  <2> QED BY <1>3, <2>2
<1>8. ASSUME NEW j \in 0..(size - 1) PROVE Period(p)[j] \in Samples
  <2> DEFINE c == w[(j % L) + 1]
             x == p.chan[c].head + (j \div L)
  <2>1. j \in Nat /\ L # 0
    <3>1. j \in Nat /\ size # 0
      <4> HIDE DEF size
      <4> QED BY <1>3
    <3>2. L = 0 => size = 0
      BY <1>2
    <3> QED BY <3>1, <3>2
  <2>2. j % L \in 0..(L - 1) /\ j \div L \in Nat
    <3>1. L \in Nat \ {0} /\ j \in Int
      BY <1>1, <2>1
    <3>2. j % L \in 0..(L - 1)
      BY <3>1, ModRange
    <3>3. j \div L \in Nat
      BY <2>1, <3>1, DivNat
    <3> QED BY <3>2, <3>3
  <2>3. c \in Chans
    <3>1. (j % L) + 1 \in 1..L
      <4> HIDE DEF L
      <4> QED BY <1>1, <2>2
    <3>2. c \in W
      BY <1>4, <3>1
    <3> QED BY <3>2 DEF Waves
  <2>4. p.chan[c].head \in Nat
    <3> HIDE DEF c
    <3>1. p.chan[c] \in Channel
      BY <2>3 DEF Pde
    <3> QED BY <3>1, MaxLenIsLongest DEF Channel
  <2>5. x \in Nat
    <3> DEFINE h == p.chan[c].head
               v == j \div L
    <3>1. h \in Nat /\ v \in Nat
      BY <2>2, <2>4
    <3> HIDE DEF h, v
    <3>2. h + v \in Nat
      BY <3>1
    <3> QED BY <3>2 DEF h, v
  <2>6. Sample(p, c, x) \in Samples
    <3> HIDE DEF c, x
    <3> QED BY <2>3, <2>5, SampleType
  <2>7. Period(p)[j] = Sample(p, c, x)
    <3> HIDE DEF size
    <3> QED BY <1>5
  <2> QED BY <2>6, <2>7
<1> QED BY <1>3, <1>6, <1>7, <1>8

LEMMA PrimedPde ==
  ASSUME NEW p \in Pde, NEW cells \in [0..(RingSamples - 1) -> Samples], NEW x \in Nat,
         NEW ch \in [Chans -> Channel]
  PROVE  [p EXCEPT !.cells = cells, !.removed = x, !.chan = ch] \in Pde
BY DEF Pde

LEMMA PrimeStaticFacts ==
  ASSUME NEW p \in Pde, p.single \in Nat \ {0}, p.n \in Nat \ {0}, NEW q, q = PrimeStatic(p)
  PROVE  q \in Pde /\ Carried(p, q) /\ q.pad = p.pad
<1> DEFINE period == Period(p)
           size == Cardinality(DOMAIN period)
           cells == [i \in DOMAIN p.cells |-> IF i < Copied(p) THEN period[i % size] ELSE p.cells[i]]
           head(c) == Upto(p.chan[c].head + p.single, MaxLen)
           ch == [c \in Chans |-> IF p.chan[c].mode # "static" THEN p.chan[c]
                                  ELSE [p.chan[c] EXCEPT !.head = head(c)]]
<1>1. size \in Nat /\ \A j \in 0..(size - 1) : period[j] \in Samples
  BY PeriodType
<1>2. size = 0 => Copied(p) = 0
  <2> DEFINE d == RingSamples \div (p.single * p.n)
  <2>1. d \in Int
    <3>1. p.single * p.n \in Nat \ {0}
      BY ProductPos
    <3>2. RingSamples \in Int
      BY Sizes
    <3> QED BY <3>1, <3>2, ModRange
  <2>2. Copied(p) = size * d
    BY DEF Copied
  <2> HIDE DEF d, size
  <2> QED BY <2>1, <2>2
<1>3. cells \in [0..(RingSamples - 1) -> Samples]
  <2>1. p.cells \in [0..(RingSamples - 1) -> Samples]
    BY DEF Pde
  <2>2. ASSUME NEW i \in 0..(RingSamples - 1) PROVE cells[i] \in Samples
    <3>1. CASE i < Copied(p)
      <4>1. size # 0
        <5> HIDE DEF size
        <5> QED BY <1>2, <3>1, Sizes
      <4>2. i % size \in 0..(size - 1)
        <5> HIDE DEF size
        <5>1. i \in Int /\ size \in Nat \ {0}
          BY <1>1, <4>1
        <5> QED BY <5>1, ModRange
      <4> QED BY <1>1, <2>1, <3>1, <4>2
    <3>2. CASE ~(i < Copied(p))
      BY <2>1, <3>2
    <3> QED BY <3>1, <3>2
  <2> QED BY <2>1, <2>2
<1>4. ASSUME NEW c \in Chans
      PROVE  /\ ch[c] \in Channel /\ ch[c].mode = p.chan[c].mode /\ ch[c].mdl = p.chan[c].mdl
             /\ ch[c].buf = p.chan[c].buf /\ ch[c].size = p.chan[c].size
             /\ ch[c].room = p.chan[c].room
  <2>1. p.chan[c] \in Channel
    BY DEF Pde
  <2>2. head(c) \in 0..MaxLen
    <3>1. p.chan[c].head \in Nat /\ p.single \in Nat /\ MaxLen \in Nat
      BY <2>1, MaxLenIsLongest DEF Channel
    <3> QED BY <3>1 DEF Upto
  <2> HIDE DEF head
  <2> QED BY <2>1, <2>2 DEF Channel
<1>5. q = [p EXCEPT !.cells = cells, !.removed = p.total, !.chan = ch]
  BY DEF PrimeStatic
<1>6. ch \in [Chans -> Channel]
  <2>1. \A c \in Chans : ch[c] \in Channel
    BY <1>4
  <2> QED BY <2>1
<1>7. /\ \A c \in Chans : ch[c].mode = p.chan[c].mode /\ ch[c].mdl = p.chan[c].mdl
      /\ \A c \in Chans : ch[c].buf = p.chan[c].buf /\ ch[c].size = p.chan[c].size
      /\ \A c \in Chans : ch[c].room = p.chan[c].room
  BY <1>4
<1> HIDE DEF ch, cells
<1>8. p.total \in Nat
  BY DEF Pde
<1>9. q \in Pde
  <2>1. [p EXCEPT !.cells = cells, !.removed = p.total, !.chan = ch] \in Pde
    BY <1>3, <1>6, <1>8, PrimedPde
  <2> QED BY <1>5, <2>1
<1>10. q.chan = ch
  BY <1>5 DEF Pde
<1>11. /\ SameTimer(p, q) /\ SameAsked(p, q) /\ SameRun(p, q) /\ SameCount(p, q)
       /\ q.dynamic = p.dynamic /\ q.error = p.error /\ q.ring = p.ring /\ q.total = p.total
       /\ q.pad = p.pad
  BY <1>5 DEF Pde, SameTimer, SameAsked, SameRun, SameCount
<1> QED BY <1>7, <1>9, <1>10, <1>11 DEF Carried, SameChans

LEMMA CopyUserSamplesFacts ==
  ASSUME NEW p \in Pde, NEW n \in Nat, NEW q, q = CopyUserSamples(p, n)
  PROVE  q \in Pde /\ Carried(p, q) /\ q.pad = p.pad /\ q.pending = p.pending
<1>1. CASE n = 0 \/ ~p.transfer
  <2>1. q = p
    BY <1>1 DEF CopyUserSamples
  <2> QED BY <2>1, CarriedBack
<1>2. CASE ~(n = 0 \/ ~p.transfer)
  <2> DEFINE x == IF p.conf.infinite THEN p.removed + n ELSE Upto(p.removed + n, p.total)
  <2>1. q = [p EXCEPT !.removed = x]
    BY <1>2 DEF CopyUserSamples
  <2>2. x \in Nat
    <3>1. p.removed \in Nat /\ p.total \in Nat
      BY DEF Pde
    <3> QED BY <3>1 DEF Upto
  <2> HIDE DEF x
  <2>3. q \in Pde
    BY <2>1, <2>2 DEF Pde
  <2>4. /\ SameTimer(p, q) /\ SameAsked(p, q) /\ SameRun(p, q) /\ SameCount(p, q)
        /\ q.dynamic = p.dynamic /\ q.error = p.error /\ q.ring = p.ring /\ q.total = p.total
        /\ q.pad = p.pad /\ q.chan = p.chan /\ q.pending = p.pending
    BY <2>1 DEF Pde, SameTimer, SameAsked, SameRun, SameCount
  <2> QED BY <2>3, <2>4 DEF Carried, SameChans
<1> QED BY <1>1, <1>2

LEMMA PrimeFacts ==
  ASSUME NEW p \in Pde, ~p.dynamic => p.single \in Nat \ {0} /\ p.n \in Nat \ {0},
         NEW q, q = Prime(p)
  PROVE  q \in Pde /\ Carried(p, q) /\ q.pad = p.pad
<1>1. CASE ~p.dynamic
  <2>1. q = PrimeStatic(p)
    BY <1>1 DEF Prime
  <2> QED BY <1>1, <2>1, PrimeStaticFacts
<1>2. CASE p.dynamic
  <2> DEFINE n == Upto(p.first \div 2, RingSamples)
  <2>1. q = CopyUserSamples(p, n)
    BY <1>2 DEF Prime
  <2>2. n \in Nat
    <3>1. p.first \in Nat /\ RingSamples \in Nat
      BY Sizes DEF Pde
    <3>2. p.first \div 2 \in Nat
      BY <3>1, DivNat
    <3> QED BY <3>1, <3>2 DEF Upto
  <2> HIDE DEF n
  <2> QED BY <2>1, <2>2, CopyUserSamplesFacts
<1> QED BY <1>1, <1>2

LEMMA LastCycleType ==
  ASSUME NEW p \in Pde
  PROVE  LastCycle(p) \in 1..p.ring /\ p.ring \in 1..RingSamples
<1>1. p.total \in Nat /\ p.ring \in 1..RingSamples
  BY DEF Pde
<1>2. p.ring \in Nat \ {0} /\ p.total \in Int
  BY <1>1, Sizes
<1>3. p.total % p.ring \in 0..(p.ring - 1)
  BY <1>2, ModRange
<1> QED BY <1>1, <1>2, <1>3 DEF LastCycle

LEMMA PadBlockFacts ==
  ASSUME NEW p \in Pde, NEW q, q = ComputePadBlockInfo(p)
  PROVE  q \in Pde /\ Carried(p, q) /\ q.pad = p.pad
<1>1. CASE p.conf.infinite
  <2>1. q = p
    BY <1>1 DEF ComputePadBlockInfo
  <2> QED BY <2>1, CarriedBack
<1>2. CASE ~p.conf.infinite
  <2> DEFINE r == [p EXCEPT !.last = LastCycle(p)]
             final == BlockEnd(r, FinalBlock(r)) - FinalBlock(r) * Block
             x == IF p.dynamic /\ 4 * final > p.total THEN TRUE ELSE FALSE
  <2>1. q = [r EXCEPT !.cut = (p.dynamic /\ 4 * final > p.total)]
    BY <1>2 DEF ComputePadBlockInfo
  <2>2. (p.dynamic /\ 4 * final > p.total) = x
    OBVIOUS
  <2>3. x \in BOOLEAN
    OBVIOUS
  <2>4. LastCycle(p) \in 0..RingSamples
    BY LastCycleType, Sizes
  <2> HIDE DEF x, final
  <2>5. q = [p EXCEPT !.last = LastCycle(p), !.cut = x]
    BY <2>1, <2>2
  <2>6. q \in Pde
    BY <2>3, <2>4, <2>5 DEF Pde
  <2>7. /\ SameTimer(p, q) /\ SameAsked(p, q) /\ SameRun(p, q) /\ SameCount(p, q)
        /\ q.dynamic = p.dynamic /\ q.error = p.error /\ q.ring = p.ring /\ q.total = p.total
        /\ q.pad = p.pad /\ q.chan = p.chan
    BY <2>5 DEF Pde, SameTimer, SameAsked, SameRun, SameCount
  <2> QED BY <2>6, <2>7 DEF Carried, SameChans
<1> QED BY <1>1, <1>2
LEMMA PadPointType ==
  ASSUME NEW p \in Pde, p.single \in Nat \ {0}
  PROVE  PadPoint(p) \in Nat
<1>1. p.conf.stop \in Nat
  BY DEF Pde, Conf
<1>2. p.conf.stop % p.single \in 0..(p.single - 1)
  <2>1. p.conf.stop \in Int
    BY <1>1
  <2> QED BY <2>1, ModRange
<1> DEFINE m == p.conf.stop % p.single
<1>3. PadPoint(p) = IF m = 0 THEN p.single - 1 ELSE m - 1
  BY DEF PadPoint
<1> HIDE DEF m
<1>4. m \in 0..(p.single - 1)
  BY <1>2 DEF m
<1> QED BY <1>3, <1>4

LEMMA FillPadStaticFacts ==
  ASSUME NEW p \in Pde, p.single \in Nat \ {0}, p.n <= Cardinality(Waves(p, "static")),
         Padded(p), NEW q, q = FillPadStatic(p)
  PROVE  q \in Pde /\ Carried(p, q) /\ Padded(q)
<1> DEFINE W == Waves(p, "static")
           w == InOrder(W)
           pd == [i \in 1..p.n |-> IF p.chan[w[i]].buf THEN Sample(p, w[i], PadPoint(p)) ELSE Junk]
<1>1. p.n \in Nat
  BY DEF Pde
<1>2. ASSUME NEW i \in 1..p.n PROVE pd[i] \in Samples
  <2>1. i \in 1..Cardinality(W)
    BY <1>1, WavesCounted
  <2>2. w[i] \in W
    BY <2>1, WavesCounted, Ordered
  <2>3. w[i] \in Chans
    BY <2>2 DEF Waves
  <2>4. Sample(p, w[i], PadPoint(p)) \in Samples
    BY <2>3, PadPointType, SampleType
  <2> HIDE DEF w
  <2> QED BY <2>4, Sizes
<1>3. pd \in [1..p.n -> Samples]
  <2>1. \A i \in 1..p.n : pd[i] \in Samples
    BY <1>2
  <2> QED BY <2>1
<1>4. q = [p EXCEPT !.pad = pd]
  BY DEF FillPadStatic
<1> HIDE DEF pd
<1>5. pd \in Seq(Samples) /\ Len(pd) = p.n
  BY <1>1, <1>3
<1>6. q \in Pde
  BY <1>4, <1>5 DEF Pde
<1>7. /\ SameTimer(p, q) /\ SameAsked(p, q) /\ SameRun(p, q) /\ SameCount(p, q)
      /\ q.dynamic = p.dynamic /\ q.error = p.error /\ q.ring = p.ring /\ q.total = p.total
      /\ q.pad = pd /\ q.chan = p.chan
  BY <1>4 DEF Pde, SameTimer, SameAsked, SameRun, SameCount
<1>8. Carried(p, q)
  BY <1>7 DEF Carried, SameChans
<1>9. Padded(q)
  BY <1>5, <1>7 DEF Padded, SameCount
<1> QED BY <1>6, <1>8, <1>9

LEMMA SkipStop ==
  ASSUME NEW p, NEW q, q = p, p \in Pde, Padded(p)
  PROVE  q \in Pde /\ Carried(p, q) /\ Padded(q)
BY CarriedBack

LEMMA PrepareToStopFacts ==
  ASSUME NEW p \in Pde, Padded(p), NEW q, q = PrepareToStop(p)
  PROVE  q \in Pde /\ Carried(p, q) /\ Padded(q)
<1>1. CASE q = p
  BY <1>1, SkipStop
<1>2. CASE /\ p.dynamic
           /\ q = [FillPadDynamic(p) EXCEPT !.cut = TRUE, !.pending = TRUE]
  <2> DEFINE x == p.cells[LastCycle(p) - 1]
             pd == <<x>>
  <2>1. q = [p EXCEPT !.pad = pd, !.cut = TRUE, !.pending = TRUE]
    BY <1>2 DEF FillPadDynamic
  <2>2. x \in Samples
    <3>1. p.cells \in [0..(RingSamples - 1) -> Samples]
      BY DEF Pde
    <3>2. LastCycle(p) - 1 \in 0..(RingSamples - 1)
      BY LastCycleType, Sizes
    <3> QED BY <3>1, <3>2
  <2> HIDE DEF x
  <2>3. pd \in Seq(Samples) /\ Len(pd) = 1
    BY <2>2
  <2> HIDE DEF pd
  <2>4. q \in Pde
    BY <2>1, <2>3 DEF Pde
  <2>5. /\ SameTimer(p, q) /\ SameAsked(p, q) /\ SameRun(p, q) /\ SameCount(p, q)
        /\ q.dynamic = p.dynamic /\ q.error = p.error /\ q.ring = p.ring /\ q.total = p.total
        /\ q.pad = pd /\ q.chan = p.chan
    BY <2>1 DEF Pde, SameTimer, SameAsked, SameRun, SameCount
  <2>6. Carried(p, q)
    BY <2>5 DEF Carried, SameChans
  <2>7. Padded(q)
    BY <1>2, <2>3, <2>5 DEF Padded, SameCount
  <2> QED BY <2>4, <2>6, <2>7
<1>3. CASE q = [p EXCEPT !.cut = TRUE, !.pending = TRUE]
  <2>1. q \in Pde
    BY <1>3 DEF Pde
  <2>2. /\ SameTimer(p, q) /\ SameAsked(p, q) /\ SameRun(p, q) /\ SameCount(p, q)
        /\ q.dynamic = p.dynamic /\ q.error = p.error /\ q.ring = p.ring /\ q.total = p.total
        /\ q.pad = p.pad /\ q.chan = p.chan
    BY <1>3 DEF Pde, SameTimer, SameAsked, SameRun, SameCount
  <2>3. Carried(p, q)
    BY <2>2 DEF Carried, SameChans
  <2>4. Padded(q)
    BY <2>2 DEF Padded, SameCount
  <2> QED BY <2>1, <2>3, <2>4
<1> QED BY <1>1, <1>2, <1>3 DEF PrepareToStop

LEMMA CarriedPad ==
  ASSUME NEW p, NEW q, Padded(p), Carried(p, q), q.pad = p.pad
  PROVE  Padded(q)
BY DEF Padded, Carried, SameCount

(* dacArm from dacDisarm on: what it leaves, if it succeeds and if not.    *)
LEMMA ClearedPde ==
  ASSUME NEW p \in Pde
  PROVE  [p EXCEPT !.count = 0, !.old = 0, !.dmaed = 0, !.removed = 0] \in Pde
BY DEF Pde

LEMMA RearmedFacts ==
  ASSUME NEW p \in Pde, NEW q, q = Rearmed(p)
  PROVE  /\ q \in Pde
         /\ ~q.active /\ ~q.dma /\ ~q.pacer /\ q.enabled = {} /\ ~q.dynamic
         /\ SameTimer(p, q) /\ SameAsked(p, q) /\ SameChans(p, q)
         /\ q.n = p.n /\ q.dmaed = 0 /\ q.count = 0 /\ q.old = 0 /\ q.error = p.error
         /\ \A c \in Chans : q.chan[c].room = 0
<1> DEFINE r == Disarm(p)
<1>1. /\ r \in Pde
      /\ ~r.active /\ ~r.dma /\ ~r.pacer /\ r.enabled = {} /\ ~r.dynamic
      /\ SameTimer(p, r) /\ SameAsked(p, r) /\ SameChans(p, r)
      /\ r.n = p.n /\ r.error = p.error
      /\ \A c \in Chans : r.chan[c].room = 0
  BY DisarmFacts
<1>2. q = [r EXCEPT !.count = 0, !.old = 0, !.dmaed = 0, !.removed = 0]
  BY DEF Rearmed
<1> HIDE DEF r
<1>3. q \in Pde
  <2>1. [r EXCEPT !.count = 0, !.old = 0, !.dmaed = 0, !.removed = 0] \in Pde
    BY <1>1, ClearedPde
  <2> QED BY <1>2, <2>1
<1>4. /\ q.active = r.active /\ q.dma = r.dma /\ q.pacer = r.pacer /\ q.enabled = r.enabled
      /\ q.dynamic = r.dynamic /\ SameTimer(r, q) /\ SameAsked(r, q) /\ q.chan = r.chan
      /\ q.n = r.n /\ q.dmaed = 0 /\ q.count = 0 /\ q.old = 0 /\ q.error = r.error
  <2>1. r \in Pde
    BY <1>1
  <2> QED BY <1>2, <2>1 DEF Pde, SameTimer, SameAsked
<1>5. SameTimer(p, q) /\ SameAsked(p, q) /\ SameChans(p, q)
  BY <1>1, <1>4 DEF SameTimer, SameAsked, SameChans
<1> QED BY <1>1, <1>3, <1>4, <1>5
LEMMA SameWaves ==
  ASSUME NEW p, NEW q, NEW m, SameChans(p, q)
  PROVE  Waves(q, m) = Waves(p, m)
BY DEF Waves, SameChans

LEMMA StartedPde ==
  ASSUME NEW p \in Pde, NEW e \in SUBSET Chans, NEW x \in BOOLEAN
  PROVE  [p EXCEPT !.dma = TRUE, !.enabled = e, !.pacer = x] \in Pde
BY DEF Pde

LEMMA ArmedDmaFacts ==
  ASSUME NEW p \in Pde, Owned(p), SetupError(p) = "None", NEW q, q = ArmedDma(p)
  PROVE  /\ q \in Pde /\ Padded(q) /\ q.n = NumWaves(p)
         /\ SameTimer(p, q) /\ SameAsked(p, q) /\ SameChans(p, q)
         /\ q.active = p.active /\ q.dma
         /\ q.dmaed = p.dmaed /\ q.count = p.count /\ q.old = p.old /\ q.error = p.error
         /\ q.dynamic <=> Dynamic(p) # {}
         /\ q.enabled = Chans \ Waves(p, "voltage")
         /\ \A c \in Chans : q.chan[c].room = p.chan[c].room
<1> DEFINE q0 == SetupBuffer(p)
           q1 == Prime(q0)
           q2 == ComputePadBlockInfo(q1)
           q3 == Pad(q2)
           q4 == PrepareToStop(q3)
           e == Chans \ Waves(p, "voltage")
           x == IF p.conf.trig = "immediate" THEN TRUE ELSE FALSE
<1>1. /\ q0 \in Pde /\ Padded(q0) /\ q0.n = NumWaves(p)
      /\ SameTimer(p, q0) /\ SameAsked(p, q0) /\ q0.chan = p.chan
      /\ q0.active = p.active /\ q0.dma = p.dma /\ q0.pacer = p.pacer
      /\ q0.dmaed = p.dmaed /\ q0.count = p.count /\ q0.old = p.old /\ q0.error = p.error
      /\ q0.dynamic <=> Dynamic(p) # {}
      /\ ~q0.dynamic => q0.single \in Nat \ {0} /\ q0.single * q0.n <= RingSamples
  BY SetupBufferFacts
<1>2. q = [q4 EXCEPT !.dma = TRUE, !.enabled = Chans \ Waves(p, "voltage"),
                     !.pacer = (p.conf.trig = "immediate")]
  BY DEF ArmedDma
<1> HIDE DEF q0
<1>3. ~q0.dynamic => q0.single \in Nat \ {0} /\ q0.n \in Nat \ {0}
  BY <1>1, Sizes DEF Padded
<1>4. q1 \in Pde /\ Carried(q0, q1) /\ Padded(q1)
  <2>1. q1 \in Pde /\ Carried(q0, q1) /\ q1.pad = q0.pad
    BY <1>1, <1>3, PrimeFacts
  <2> QED BY <1>1, <2>1, CarriedPad
<1> HIDE DEF q1
<1>5. q2 \in Pde /\ Carried(q0, q2) /\ Padded(q2)
  <2>1. q2 \in Pde /\ Carried(q1, q2) /\ q2.pad = q1.pad
    BY <1>4, PadBlockFacts
  <2>2. Padded(q2)
    BY <1>4, <2>1, CarriedPad
  <2> QED BY <1>4, <2>1, <2>2, CarriedOn
<1> HIDE DEF q2
<1>6. q3 \in Pde /\ Carried(q0, q3) /\ Padded(q3)
  <2>1. CASE q2.dynamic
    <3>1. q3 = q2
      BY <2>1 DEF Pad
    <3> QED BY <1>5, <3>1
  <2>2. CASE ~q2.dynamic
    <3>1. q3 = FillPadStatic(q2)
      BY <2>2 DEF Pad
    <3>2. ~q0.dynamic /\ q2.single = q0.single /\ q2.n = q0.n /\ SameChans(q0, q2)
      BY <1>5, <2>2 DEF Carried, SameAsked, SameCount
    <3>3. Waves(q2, "static") = Waves(p, "static")
      <4>1. SameChans(p, q2)
        BY <1>1, <3>2 DEF SameChans
      <4> QED BY <4>1, SameWaves
    <3>4. NumWaves(p) = Cardinality(Static(p))
      BY <1>1, <3>2, WavesCounted
    <3>5. q2.n <= Cardinality(Waves(q2, "static"))
      BY <1>1, <3>2, <3>3, <3>4, WavesCounted
    <3>6. q2.single \in Nat \ {0}
      BY <1>1, <3>2
    <3>7. q3 \in Pde /\ Carried(q2, q3) /\ Padded(q3)
      BY <1>5, <3>1, <3>5, <3>6, FillPadStaticFacts
    <3> QED BY <1>5, <3>7, CarriedOn
  <2> QED BY <2>1, <2>2
<1> HIDE DEF q3
<1>7. q4 \in Pde /\ Carried(q0, q4) /\ Padded(q4)
  <2>1. q4 \in Pde /\ Carried(q3, q4) /\ Padded(q4)
    BY <1>6, PrepareToStopFacts
  <2> QED BY <1>6, <2>1, CarriedOn
<1> HIDE DEF q4
<1>8. e \in SUBSET Chans /\ x \in BOOLEAN /\ (p.conf.trig = "immediate") = x
  OBVIOUS
<1>9. q = [q4 EXCEPT !.dma = TRUE, !.enabled = e, !.pacer = x]
  BY <1>2, <1>8
<1> HIDE DEF e, x
<1>10. q \in Pde
  <2>1. [q4 EXCEPT !.dma = TRUE, !.enabled = e, !.pacer = x] \in Pde
    BY <1>7, <1>8, StartedPde
  <2> QED BY <1>9, <2>1
<1>11. /\ SameTimer(q4, q) /\ SameAsked(q4, q) /\ SameCount(q4, q) /\ q.chan = q4.chan
       /\ q.active = q4.active /\ q.dma /\ q.enabled = e /\ q.error = q4.error
       /\ q.dynamic = q4.dynamic /\ q.pad = q4.pad
  <2>1. q4 \in Pde
    BY <1>7
  <2> QED BY <1>9, <2>1 DEF Pde, SameTimer, SameAsked, SameCount
<1>12. Padded(q)
  BY <1>7, <1>11 DEF Padded, SameCount
<1>13. SameTimer(p, q) /\ SameAsked(p, q)
  BY <1>1, <1>7, <1>11 DEF Carried, SameTimer, SameAsked
<1>14. /\ q.active = p.active
       /\ q.dmaed = p.dmaed /\ q.count = p.count /\ q.old = p.old /\ q.error = p.error
       /\ q.dynamic = q0.dynamic /\ q.n = NumWaves(p)
  BY <1>1, <1>7, <1>11 DEF Carried, SameCount, SameRun
<1>15. SameChans(p, q) /\ \A c \in Chans : q.chan[c].room = p.chan[c].room
  BY <1>1, <1>7, <1>11 DEF Carried, SameChans
<1> QED BY <1>1, <1>10, <1>11, <1>12, <1>13, <1>14, <1>15 DEF e
-----------------------------------------------------------------------------
(* The board.                                                              *)
LEMMA LoadFacts ==
  ASSUME NEW p \in Pde, NEW b \in Nat
  PROVE  /\ Load(p, b).at = b * Block /\ Load(p, b).end \in 0..RingSamples
         /\ Load(p, b).toPad \in BOOLEAN
         /\ ~Load(p, b).toPad => Load(p, b).end <= p.ring
<1>1. p.ring \in 1..RingSamples /\ p.last \in 0..RingSamples /\ RingSamples \in Nat
  BY Sizes DEF Pde
<1>2. BlockEnd(p, b) \in 0..RingSamples /\ BlockEnd(p, b) <= p.ring
  <2> DEFINE x == (b + 1) * Block
  <2>1. x \in Nat
    <3>1. Block \in Nat /\ b + 1 \in Nat
      BY DacAssumption
    <3> QED BY <3>1, ProductNat
  <2> HIDE DEF x
  <2>2. BlockEnd(p, b) = Upto(x, p.ring)
    BY DEF BlockEnd, x
  <2> QED BY <1>1, <2>1, <2>2 DEF Upto
<1>3. CASE p.cut /\ b = FinalBlock(p)
  BY <1>1, <1>3 DEF Load
<1>4. CASE ~(p.cut /\ b = FinalBlock(p))
  BY <1>2, <1>4 DEF Load
<1> QED BY <1>3, <1>4

NextBlock(p, m) == IF m.end = p.ring THEN 0 ELSE m.end \div Block

LEMMA NextBlockFacts ==
  ASSUME NEW p \in Pde, NEW m \in Fed, m.end <= p.ring
  PROVE  NextBlock(p, m) \in Nat /\ NextBlock(p, m) * Block \in 0..(RingSamples - 1)
<1>1. /\ p.ring \in 1..RingSamples /\ m.end \in 0..RingSamples /\ RingSamples \in Nat
      /\ Block \in Nat \ {0}
  BY Sizes, DacAssumption DEF Pde, Fed
<1>2. CASE m.end = p.ring
  BY <1>1, <1>2 DEF NextBlock
<1>3. CASE m.end # p.ring
  <2> DEFINE d == m.end \div Block
  <2>1. d \in Nat /\ d * Block <= m.end
    BY <1>1, DivNat
  <2>2. NextBlock(p, m) = d
    BY <1>3 DEF NextBlock
  <2> HIDE DEF d
  <2>3. d * Block \in Nat
    BY <1>1, <2>1, ProductNat
  <2> QED BY <1>1, <1>3, <2>1, <2>2, <2>3
<1> QED BY <1>2, <1>3

LEMMA FetchFacts ==
  ASSUME NEW p \in Pde, Padded(p), NEW m \in Fed, Feeds(p, m), NEW q, q = Fetch(p, m)
  PROVE  /\ q \in Fed /\ Feeds(p, q) /\ Len(q.fifo) = Len(m.fifo) + 1
         /\ q.count = m.count /\ q.fault = m.fault
<1>1. /\ m.at \in 0..(RingSamples - 1) /\ m.end \in 0..RingSamples /\ m.toPad \in BOOLEAN
      /\ m.fifo \in Seq(Samples) /\ RingSamples \in Nat \ {0}
  BY Sizes DEF Fed
<1>2. CASE m.inPad
  <2> DEFINE L == Len(p.pad)
             x == p.pad[m.at + 1]
             a == (m.at + 1) % L
             fi == Append(m.fifo, x)
  <2>1. L \in 1..RingSamples /\ m.at < L
    BY <1>2 DEF Padded, Feeds
  <2>2. x \in Samples
    <3>1. m.at + 1 \in 1..L
      BY <1>1, <2>1
    <3>2. p.pad \in Seq(Samples)
      BY DEF Pde
    <3> QED BY <3>1, <3>2, ElementOfSeq
  <2>3. a \in 0..(L - 1)
    <3> HIDE DEF L
    <3>1. m.at + 1 \in Int /\ L \in Nat \ {0}
      BY <1>1, <2>1
    <3> QED BY <3>1, ModRange
  <2>4. fi \in Seq(Samples) /\ Len(fi) = Len(m.fifo) + 1
    <3> HIDE DEF x
    <3> QED BY <1>1, <2>2, AppendProperties
  <2>5. q = [m EXCEPT !.fifo = fi, !.at = a]
    BY <1>2 DEF Fetch
  <2> HIDE DEF fi, a, x
  <2>6. a \in 0..(RingSamples - 1) /\ a < L
    <3> HIDE DEF L
    <3> QED BY <1>1, <2>1, <2>3
  <2>7. q \in Fed
    BY <2>4, <2>5, <2>6 DEF Fed
  <2>8. /\ q.at = a /\ q.end = m.end /\ q.toPad = m.toPad /\ q.fifo = fi
        /\ q.count = m.count /\ q.fault = m.fault
    BY <2>5 DEF Fed
  <2>9. Feeds(p, q)
    BY <2>6, <2>8 DEF Feeds
  <2> QED BY <2>4, <2>7, <2>8, <2>9
<1>3. CASE ~m.inPad
  <2> DEFINE x == p.cells[m.at]
             fi == Append(m.fifo, x)
             r == [m EXCEPT !.fifo = fi, !.at = m.at + 1]
             next == Load(p, NextBlock(p, m))
  <2>1. x \in Samples
    BY <1>1 DEF Pde
  <2>2. fi \in Seq(Samples) /\ Len(fi) = Len(m.fifo) + 1
    <3> HIDE DEF x
    <3> QED BY <1>1, <2>1, AppendProperties
  <2>3. q = IF r.at < r.end THEN r
            ELSE IF r.toPad THEN [r EXCEPT !.at = 0, !.inPad = TRUE]
            ELSE [r EXCEPT !.at = next.at, !.end = next.end, !.toPad = next.toPad]
    BY <1>3 DEF Fetch, NextBlock
  <2> HIDE DEF fi, next
  <2>4. /\ r.at = m.at + 1 /\ r.end = m.end /\ r.toPad = m.toPad /\ r.fifo = fi
        /\ r.count = m.count /\ r.fault = m.fault /\ ~r.inPad
    BY <1>3 DEF Fed
  <2>5. CASE m.at + 1 < m.end
    <3>1. q = [m EXCEPT !.fifo = fi, !.at = m.at + 1]
      BY <2>3, <2>4, <2>5
    <3>2. m.at + 1 \in 0..(RingSamples - 1)
      BY <1>1, <2>5
    <3> DEFINE a == m.at + 1
    <3> HIDE DEF a
    <3>3. q \in Fed
      BY <2>2, <3>1, <3>2 DEF Fed
    <3>4. Feeds(p, q)
      BY <1>3, <3>1 DEF Feeds, Fed
    <3>5. q = r
      BY <3>1
    <3> QED BY <2>2, <2>4, <3>3, <3>4, <3>5
  <2>6. CASE ~(m.at + 1 < m.end) /\ m.toPad
    <3>1. q = [m EXCEPT !.fifo = fi, !.at = 0, !.inPad = TRUE]
      BY <2>3, <2>4, <2>6
    <3>2. 0 \in 0..(RingSamples - 1)
      BY <1>1
    <3>3. q \in Fed
      BY <2>2, <3>1, <3>2 DEF Fed
    <3>4. /\ q.at = 0 /\ q.toPad /\ q.fifo = fi /\ q.count = m.count /\ q.fault = m.fault
      BY <2>6, <3>1 DEF Fed
    <3>5. Feeds(p, q)
      BY <3>4 DEF Feeds, Padded
    <3> QED BY <2>2, <3>3, <3>4, <3>5
  <2>7. CASE ~(m.at + 1 < m.end) /\ ~m.toPad
    <3>1. q = [m EXCEPT !.fifo = fi, !.at = next.at, !.end = next.end, !.toPad = next.toPad]
      BY <2>3, <2>4, <2>7
    <3>2. NextBlock(p, m) \in Nat /\ NextBlock(p, m) * Block \in 0..(RingSamples - 1)
      <4>1. m.end <= p.ring
        BY <2>7 DEF Feeds
      <4> QED BY <4>1, NextBlockFacts
    <3>3. /\ next.at \in 0..(RingSamples - 1) /\ next.end \in 0..RingSamples
          /\ next.toPad \in BOOLEAN
          /\ ~next.toPad => next.end <= p.ring
      BY <3>2, LoadFacts DEF next
    <3>4. q \in Fed
      BY <2>2, <3>1, <3>3 DEF Fed
    <3>5. /\ q.at = next.at /\ q.end = next.end /\ q.toPad = next.toPad /\ q.inPad = m.inPad
          /\ q.fifo = fi /\ q.count = m.count /\ q.fault = m.fault
      BY <3>1 DEF Fed
    <3>6. Feeds(p, q)
      BY <1>3, <3>3, <3>5 DEF Feeds
    <3> QED BY <2>2, <3>4, <3>5, <3>6
  <2> QED BY <2>5, <2>6, <2>7 DEF Fed
<1> QED BY <1>2, <1>3

Fetched(p, m, n, g) == g = [k \in 0..n |-> IF k = 0 THEN m ELSE Fetch(p, g[k - 1])]

LEMMA HasFetched ==
  ASSUME NEW p, NEW m, NEW n \in Nat
  PROVE  \E g : Fetched(p, m, n, g)
<1> DEFINE T == {k \in Nat : ~\E g : Fetched(p, m, k, g)}
<1>1. SUFFICES ASSUME T # {} PROVE FALSE
  OBVIOUS
<1>2. PICK k \in T : \A y \in T : k <= y
  <2>1. T \in SUBSET Nat
    OBVIOUS
  <2> HIDE DEF T
  <2> QED BY <1>1, <2>1, LeastNatural
<1>3. k # 0
  <2>1. Fetched(p, m, 0, [i \in 0..0 |-> m])
    BY DEF Fetched
  <2> QED BY <2>1
<1>4. k - 1 \in Nat /\ k \in Nat
  BY <1>3
<1>5. PICK g : Fetched(p, m, k - 1, g)
  <2>1. k - 1 \notin T
    <3> HIDE DEF T
    <3> QED BY <1>2, <1>4
  <2> QED BY <1>4, <2>1
<1> DEFINE h == [i \in 0..k |-> IF i = k THEN Fetch(p, g[k - 1]) ELSE g[i]]
<1>6. Fetched(p, m, k, h)
  <2>1. \A i \in 0..(k - 1) : g[i] = IF i = 0 THEN m ELSE Fetch(p, g[i - 1])
    BY <1>5 DEF Fetched
  <2>2. ASSUME NEW i \in 0..k PROVE h[i] = IF i = 0 THEN m ELSE Fetch(p, h[i - 1])
    <3>1. CASE i = k
      <4>1. k - 1 \in 0..k /\ h[k - 1] = g[k - 1]
        BY <1>4
      <4> QED BY <1>3, <3>1, <4>1
    <3>2. CASE i # k /\ i # 0
      <4>1. i \in 0..(k - 1) /\ i - 1 \in 0..k /\ i - 1 # k
        BY <1>4, <3>2
      <4>2. h[i] = g[i] /\ h[i - 1] = g[i - 1]
        BY <3>2, <4>1
      <4> QED BY <2>1, <3>2, <4>1, <4>2
    <3>3. CASE i # k /\ i = 0
      <4>1. 0 \in 0..(k - 1)
        BY <1>3, <1>4
      <4> QED BY <2>1, <3>3, <4>1
    <3> QED BY <3>1, <3>2, <3>3
  <2>3. h = [i \in 0..k |-> h[i]]
    OBVIOUS
  <2> HIDE DEF h
  <2>4. h = [i \in 0..k |-> IF i = 0 THEN m ELSE Fetch(p, h[i - 1])]
    BY <2>2, <2>3
  <2> QED BY <2>4 DEF Fetched
<1> QED BY <1>4, <1>6

LEMMA FetchedFacts ==
  ASSUME NEW p \in Pde, Padded(p), NEW m \in Fed, Feeds(p, m), NEW n \in Nat, NEW g,
         Fetched(p, m, n, g), NEW k \in 0..n
  PROVE  /\ g[k] \in Fed /\ Feeds(p, g[k]) /\ Len(g[k].fifo) = Len(m.fifo) + k
         /\ g[k].count = m.count /\ g[k].fault = m.fault
<1> DEFINE Good(i) == /\ g[i] \in Fed /\ Feeds(p, g[i]) /\ Len(g[i].fifo) = Len(m.fifo) + i
                      /\ g[i].count = m.count /\ g[i].fault = m.fault
           T == {i \in 0..n : ~Good(i)}
<1>1. SUFFICES ASSUME T # {} PROVE FALSE
  OBVIOUS
<1>2. PICK i \in T : \A y \in T : i <= y
  <2>1. T \in SUBSET Nat
    OBVIOUS
  <2> HIDE DEF T
  <2> QED BY <1>1, <2>1, LeastNatural
<1>3. i \in 0..n /\ ~Good(i)
  BY <1>2
<1>4. g[i] = IF i = 0 THEN m ELSE Fetch(p, g[i - 1])
  BY <1>3 DEF Fetched
<1>5. Len(m.fifo) \in Nat
  BY DEF Fed
<1>6. CASE i = 0
  BY <1>3, <1>4, <1>5, <1>6
<1>7. CASE i # 0
  <2>1. i - 1 \in 0..n /\ i - 1 \notin T
    <3> HIDE DEF T
    <3> QED BY <1>2, <1>3, <1>7
  <2>2. Good(i - 1)
    BY <2>1
  <2> DEFINE a == g[i - 1]
  <2>3. a \in Fed /\ Feeds(p, a) /\ Len(a.fifo) = Len(m.fifo) + (i - 1)
        /\ a.count = m.count /\ a.fault = m.fault
    BY <2>2
  <2>4. g[i] = Fetch(p, a)
    BY <1>4, <1>7
  <2> HIDE DEF a, Good
  <2>5. g[i] \in Fed /\ Feeds(p, g[i]) /\ Len(g[i].fifo) = Len(a.fifo) + 1
        /\ g[i].count = a.count /\ g[i].fault = a.fault
    BY <2>3, <2>4, FetchFacts
  <2>6. Len(g[i].fifo) = Len(m.fifo) + i
    BY <1>3, <1>5, <2>3, <2>5
  <2> QED BY <1>3, <2>3, <2>5, <2>6 DEF Good
<1> QED BY <1>6, <1>7

LEMMA RefillFacts ==
  ASSUME NEW p \in Pde, Padded(p), NEW m \in Fed, Feeds(p, m), Len(m.fifo) <= FifoDepth,
         NEW q, q = Refill(p, m)
  PROVE  /\ q \in Fed /\ Feeds(p, q) /\ Len(q.fifo) = FifoDepth
         /\ q.count = m.count /\ q.fault = m.fault
<1> DEFINE g == CHOOSE g : Fetched(p, m, FifoDepth, g)
           k == FifoDepth - Len(m.fifo)
<1>1. FifoDepth \in Nat
  BY DacAssumption
<1>2. Fetched(p, m, FifoDepth, g)
  BY <1>1, HasFetched
<1>3. k \in 0..FifoDepth /\ Len(m.fifo) + k = FifoDepth
  <2>1. Len(m.fifo) \in Nat
    BY DEF Fed
  <2> QED BY <1>1, <2>1
<1>4. q = g[k]
  BY DEF Refill, Fetched
<1> HIDE DEF g, k
<1> QED BY <1>1, <1>2, <1>3, <1>4, FetchedFacts

LEMMA InitBoardFacts ==
  /\ InitBoard \in Fed /\ ~InitBoard.inPad /\ InitBoard.count = 0 /\ ~InitBoard.fault
  /\ Len(InitBoard.fifo) = 0 /\ Len(InitBoard.fifo) <= FifoDepth
<1>1. 0 \in 0..(RingSamples - 1) /\ 0 \in 0..RingSamples /\ FifoDepth \in Nat
  BY Sizes, DacAssumption
<1>2. InitBoard.fifo = <<>> /\ InitBoard.count = 0 /\ ~InitBoard.inPad /\ ~InitBoard.fault
  BY DEF InitBoard
<1>3. <<>> \in Seq(Samples) /\ Len(<<>>) = 0
  BY EmptySeq
<1>4. InitBoard \in Fed
  BY <1>1, <1>3 DEF InitBoard, Fed
<1> QED BY <1>1, <1>2, <1>3, <1>4

LEMMA BoardStartFacts ==
  ASSUME NEW p \in Pde, Padded(p), NEW q, q = BoardStart(p)
  PROVE  /\ q \in Fed /\ Feeds(p, q) /\ Len(q.fifo) = FifoDepth
         /\ q.count = 0 /\ ~q.fault
<1> DEFINE l == Load(p, 0)
           m == [InitBoard EXCEPT !.end = l.end, !.toPad = l.toPad]
<1>1. /\ l.end \in 0..RingSamples /\ l.toPad \in BOOLEAN
      /\ ~l.toPad => l.end <= p.ring
  BY LoadFacts
<1>2. q = Refill(p, m)
  BY DEF BoardStart
<1> HIDE DEF l
<1>3. InitBoard \in Fed
  BY InitBoardFacts
<1>4. m \in Fed
  BY <1>1, <1>3 DEF Fed
<1>5. /\ m.end = l.end /\ m.toPad = l.toPad /\ m.inPad = InitBoard.inPad
      /\ m.fifo = InitBoard.fifo /\ m.count = InitBoard.count /\ m.fault = InitBoard.fault
  BY <1>3 DEF Fed
<1> HIDE DEF m
<1>6. Feeds(p, m) /\ Len(m.fifo) <= FifoDepth /\ m.count = 0 /\ ~m.fault
  BY <1>1, <1>5, InitBoardFacts DEF Feeds
<1>7. /\ q \in Fed /\ Feeds(p, q) /\ Len(q.fifo) = FifoDepth
      /\ q.count = m.count /\ q.fault = m.fault
  BY <1>2, <1>4, <1>6, RefillFacts
<1> QED BY <1>6, <1>7
-----------------------------------------------------------------------------
(* The timer callback.                                                     *)
(* What is left where dacDisarm and dacStop end a waveform.                *)
Ended(p, q) ==
  /\ Quieted(q) /\ q.die /\ q.running = p.running /\ q.timer = p.timer
  /\ q.enabled = {} /\ ~q.dynamic /\ SameAsked(p, q) /\ q.n = p.n
  /\ \A c \in Chans :
       /\ q.chan[c].mode = p.chan[c].mode /\ q.chan[c].size = p.chan[c].size
       /\ q.chan[c].room = 0
       /\ c = Digital => q.chan[c].mdl = p.chan[c].mdl /\ q.chan[c].buf = p.chan[c].buf
       /\ c # Digital => q.chan[c].buf = FALSE
                         /\ (q.chan[c].mdl <=> p.chan[c].mdl /\ ~p.chan[c].buf)

LEMMA EndFacts ==
  ASSUME NEW p \in Pde, NEW q, q = Stop(Disarm(p))
  PROVE  q \in Pde /\ Ended(p, q) /\ q.error = p.error /\ q.dmaed = p.dmaed
<1> DEFINE r == Disarm(p)
<1>1. /\ r \in Pde
      /\ ~r.active /\ ~r.dma /\ ~r.pacer /\ r.enabled = {} /\ ~r.dynamic
      /\ SameTimer(p, r) /\ SameAsked(p, r) /\ SameChans(p, r)
      /\ r.n = p.n /\ r.dmaed = p.dmaed /\ r.error = p.error
      /\ \A c \in Chans : r.chan[c].room = 0
  BY DisarmFacts
<1> HIDE DEF r
<1>2. q = Stop(r)
  BY DEF r
<1>3. /\ q \in Pde
      /\ q.die /\ q.running = r.running /\ q.timer = r.timer
      /\ SameRun(r, q) /\ SameCount(r, q) /\ SameAsked(r, q)
      /\ q.dynamic = r.dynamic /\ q.error = r.error
      /\ \A c \in Chans :
              /\ q.chan[c].mode = r.chan[c].mode /\ q.chan[c].size = r.chan[c].size
              /\ q.chan[c].room = r.chan[c].room
              /\ c = Digital => q.chan[c] = r.chan[c]
              /\ c # Digital => q.chan[c].buf = FALSE
                                /\ (q.chan[c].mdl <=> r.chan[c].mdl /\ ~r.chan[c].buf)
  <2>1. r \in Pde
    BY <1>1
  <2>2. q \in Pde /\ Stopped(r, q)
    BY <1>2, <2>1, StopFacts
  <2> QED BY <2>2 DEF Stopped
<1>4. /\ Quieted(q) /\ q.running = p.running /\ q.timer = p.timer
      /\ q.enabled = {} /\ ~q.dynamic /\ SameAsked(p, q) /\ q.n = p.n
      /\ q.error = p.error /\ q.dmaed = p.dmaed
  BY <1>1, <1>3 DEF Quieted, SameRun, SameCount, SameAsked, SameTimer
<1>5. \A c \in Chans :
       /\ q.chan[c].mode = p.chan[c].mode /\ q.chan[c].size = p.chan[c].size
       /\ q.chan[c].room = 0
       /\ c = Digital => q.chan[c].mdl = p.chan[c].mdl /\ q.chan[c].buf = p.chan[c].buf
       /\ c # Digital => q.chan[c].buf = FALSE
                         /\ (q.chan[c].mdl <=> p.chan[c].mdl /\ ~p.chan[c].buf)
  BY <1>1, <1>3 DEF SameChans
<1> QED BY <1>3, <1>4, <1>5 DEF Ended

LEMMA FailFacts ==
  ASSUME NEW p \in Pde, NEW e \in Errors, NEW q, q = Fail(p, e)
  PROVE  q \in Pde /\ Ended(p, q) /\ q.error = e /\ q.dmaed = p.dmaed
<1> DEFINE r == Stop(Disarm(p))
<1>1. r \in Pde /\ Ended(p, r) /\ r.dmaed = p.dmaed
  BY EndFacts
<1>2. q = [r EXCEPT !.error = e]
  BY DEF Fail
<1> HIDE DEF r
<1>3. q \in Pde
  BY <1>1, <1>2 DEF Pde
<1>4. /\ q.active = r.active /\ q.dma = r.dma /\ q.pacer = r.pacer /\ q.enabled = r.enabled
      /\ q.dynamic = r.dynamic /\ q.running = r.running /\ q.die = r.die /\ q.timer = r.timer
      /\ q.conf = r.conf /\ q.single = r.single /\ q.n = r.n /\ q.chan = r.chan
      /\ q.error = e /\ q.dmaed = r.dmaed
  BY <1>1, <1>2 DEF Pde
<1>5. Ended(p, q)
  BY <1>1, <1>4 DEF Ended, Quieted, SameAsked
<1> QED BY <1>1, <1>3, <1>4, <1>5

LEMMA FinishedFacts ==
  ASSUME NEW p \in Pde, NEW q, q = Finished(p)
  PROVE  q \in Pde /\ Ended(p, q) /\ q.error = p.error /\ q.dmaed = p.total
<1> DEFINE r == Stop(Disarm(p))
           t == p.total
<1>1. r \in Pde /\ Ended(p, r) /\ r.error = p.error
  BY EndFacts
<1>2. q = [r EXCEPT !.dmaed = t]
  BY DEF Finished
<1> HIDE DEF r
<1>3. t \in Nat
  BY DEF Pde
<1> HIDE DEF t
<1>4. q \in Pde
  BY <1>1, <1>2, <1>3 DEF Pde
<1>5. /\ q.active = r.active /\ q.dma = r.dma /\ q.pacer = r.pacer /\ q.enabled = r.enabled
      /\ q.dynamic = r.dynamic /\ q.running = r.running /\ q.die = r.die /\ q.timer = r.timer
      /\ q.conf = r.conf /\ q.single = r.single /\ q.n = r.n /\ q.chan = r.chan
      /\ q.error = r.error /\ q.dmaed = t
  BY <1>1, <1>2 DEF Pde
<1>6. Ended(p, q)
  BY <1>1, <1>5 DEF Ended, Quieted, SameAsked
<1> QED BY <1>1, <1>4, <1>5, <1>6 DEF t

(* The 16-bit register, read before it can have gone round twice, gives    *)
(* the number of updates.                                                  *)
LEMMA Extended ==
  ASSUME NEW W \in Nat \ {0}, NEW s \in Nat, NEW u \in Nat, s <= u, u - s < W
  PROVE  (s \div W) * W + (u % W) + (IF (u % W) < (s % W) THEN W ELSE 0) = u
<1> DEFINE a == s \div W
           b == u \div W
           x == s % W
           y == u % W
<1>1. x \in 0..(W - 1) /\ s = W * a + x /\ a \in Int
  BY ModRange
<1>2. y \in 0..(W - 1) /\ u = W * b + y /\ b \in Int
  BY ModRange
<1> DEFINE total == a * W + y + (IF y < x THEN W ELSE 0)
<1>0. total = (s \div W) * W + (u % W) + (IF (u % W) < (s % W) THEN W ELSE 0)
  OBVIOUS
<1> HIDE DEF a, b, x, y
<1>3. W * a = a * W /\ W * b = b * W /\ (b - a) * W = b * W - a * W
      /\ (b - a - 1) * W = b * W - a * W - W
  BY <1>1, <1>2
<1>4. ASSUME y < x PROVE total = u
  <2>1. b - a - 1 \in Int /\ -W < (b - a - 1) * W /\ (b - a - 1) * W < W
    BY <1>1, <1>2, <1>3, <1>4
  <2>2. b - a - 1 = 0
    BY <2>1, NoMultipleBetween
  <2>3. b * W = a * W + W
    BY <1>1, <1>2, <1>3, <2>2
  <2>4. a * W + y + W = u
    BY <1>1, <1>2, <1>3, <2>3
  <2> QED BY <1>4, <2>4
<1>5. ASSUME ~(y < x) PROVE total = u
  <2>1. b - a \in Int /\ -W < (b - a) * W /\ (b - a) * W < W
    BY <1>1, <1>2, <1>3, <1>5
  <2>2. b - a = 0
    BY <2>1, NoMultipleBetween
  <2>3. a * W + y + 0 = u
    BY <1>1, <1>2, <1>3, <2>2
  <2> QED BY <1>5, <2>3
<1>6. total = u
  BY <1>4, <1>5
<1> HIDE DEF total
<1> QED BY <1>0, <1>6

LEMMA CountedPde ==
  ASSUME NEW p \in Pde, NEW u \in Nat, NEW o \in Nat, NEW d \in Nat
  PROVE  [p EXCEPT !.count = u, !.old = o, !.dmaed = d] \in Pde
BY DEF Pde

LEMMA ComputeFacts ==
  ASSUME NEW p \in Pde, NEW s \in Nat, NEW u \in Nat, s <= u, u - s < Word,
         Counted(p, s), board.count = u % Word,
         NEW q, q = ComputeSamplesDmaed(p)
  PROVE  /\ q \in Pde /\ Counted(q, u) /\ q.dmaed - p.dmaed \in Nat
         /\ SameTimer(p, q) /\ SameAsked(p, q) /\ SameRun(p, q) /\ q.chan = p.chan
         /\ q.dynamic = p.dynamic /\ q.error = p.error /\ q.pad = p.pad /\ q.n = p.n
         /\ q.pending = p.pending /\ q.total = p.total /\ q.ring = p.ring
<1> DEFINE d == p.dmaed + (u - s) * p.n
           o == board.count
<1>1. Word \in Nat \ {0}
  BY DacAssumption
<1>2. DacScanCounter(p) = u
  BY <1>1, Extended DEF DacScanCounter, Counted
<1>3. q = [p EXCEPT !.count = u, !.old = o, !.dmaed = d]
  BY <1>2 DEF ComputeSamplesDmaed, Counted
<1>4. p.n \in Nat /\ p.dmaed = s * p.n
  BY DEF Pde, Counted
<1>5. d = u * p.n /\ d \in Nat /\ d - p.dmaed \in Nat
  <2> DEFINE n == p.n
             e == u - s
  <2>1. n \in Nat /\ e \in Nat /\ u = s + e
    BY <1>4
  <2> HIDE DEF n, e
  <2>2. (s + e) * n = s * n + e * n /\ e * n \in Nat /\ s * n \in Nat
    BY <2>1
  <2> QED BY <1>4, <2>1, <2>2 DEF n, e
<1>6. o \in Nat /\ o = u % Word
  <2>1. u \in Int
    OBVIOUS
  <2>2. u % Word \in 0..(Word - 1)
    BY <1>1, <2>1, ModRange
  <2> QED BY <2>2
<1> HIDE DEF d, o
<1>7. q \in Pde
  <2>1. [p EXCEPT !.count = u, !.old = o, !.dmaed = d] \in Pde
    BY <1>5, <1>6, CountedPde
  <2> QED BY <1>3, <2>1
<1>8. /\ SameTimer(p, q) /\ SameAsked(p, q) /\ SameRun(p, q) /\ q.chan = p.chan
      /\ q.dynamic = p.dynamic /\ q.error = p.error /\ q.pad = p.pad /\ q.n = p.n
      /\ q.pending = p.pending /\ q.total = p.total /\ q.ring = p.ring
      /\ q.count = u /\ q.old = o /\ q.dmaed = d
  BY <1>3 DEF Pde, SameTimer, SameAsked, SameRun
<1>9. Counted(q, u)
  BY <1>5, <1>6, <1>8 DEF Counted
<1> QED BY <1>5, <1>7, <1>8, <1>9

GoesOn(p, q, u) ==
  /\ Counted(q, u) /\ Padded(q) /\ SameTimer(p, q) /\ SameAsked(p, q) /\ SameRun(p, q)
  /\ SameChans(p, q) /\ \A c \in Chans : q.chan[c].room = p.chan[c].room
  /\ q.dynamic = p.dynamic /\ q.error = p.error /\ q.n = p.n /\ q.ring = p.ring

LEMMA EndedThrough ==
  ASSUME NEW p, NEW r, NEW q, Ended(r, q), SameTimer(p, r), SameAsked(p, r), r.n = p.n,
         r.chan = p.chan
  PROVE  Ended(p, q)
BY DEF Ended, SameTimer, SameAsked

LEMMA CheckFacts ==
  ASSUME NEW p \in Pde, Padded(p), NEW s \in Nat, NEW u \in Nat, s <= u, u - s < Word,
         Counted(p, s), board.count = u % Word,
         NEW q, q = CheckEventsAndMoveData(p)
  PROVE  /\ q \in Pde
         /\ q.dmaed <= u * q.n
         /\ GoesOn(p, q, u) \/ Ended(p, q)
<1> DEFINE c == ComputeSamplesDmaed(p)
           samples == c.dmaed - p.dmaed
           x == IF c.triggered \/ samples > 0 THEN TRUE ELSE FALSE
           r == [c EXCEPT !.triggered = x]
<1>1. /\ c \in Pde /\ Counted(c, u) /\ samples \in Nat
      /\ SameTimer(p, c) /\ SameAsked(p, c) /\ SameRun(p, c) /\ c.chan = p.chan
      /\ c.dynamic = p.dynamic /\ c.error = p.error /\ c.pad = p.pad /\ c.n = p.n
      /\ c.pending = p.pending /\ c.total = p.total /\ c.ring = p.ring
  BY ComputeFacts
<1>2. [c EXCEPT !.triggered = @ \/ samples > 0] = r
  <2>1. (c.triggered \/ samples > 0) = x
    OBVIOUS
  <2> QED BY <2>1
<1>3. \/ q = Fail(c, "PacerOverrun")
      \/ q = Fail(r, "BufferUnderrun")
      \/ r.dmaed >= p.total /\ q = Finished(r)
      \/ q = r
      \/ q = PrepareToStop(CopyUserSamples(r, samples))
  <2> DEFINE rr == [c EXCEPT !.triggered = @ \/ samples > 0]
  <2>1. q = IF board.fault THEN Fail(c, "PacerOverrun")
            ELSE IF p.dynamic /\ samples > p.first THEN Fail(rr, "BufferUnderrun")
            ELSE IF ~p.conf.infinite /\ rr.dmaed >= p.total THEN Finished(rr)
            ELSE IF ~p.dynamic \/ p.pending THEN rr
            ELSE IF rr.removed < rr.dmaed THEN Fail(rr, "BufferUnderrun")
            ELSE PrepareToStop(CopyUserSamples(rr, samples))
    BY DEF CheckEventsAndMoveData
  <2>2. rr = r
    BY <1>2
  <2> HIDE DEF rr, r, samples, c
  <2> QED BY <2>1, <2>2
<1>4. r \in Pde
  <2>1. x \in BOOLEAN
    OBVIOUS
  <2> HIDE DEF x, c
  <2> QED BY <1>1, <2>1 DEF Pde
<1>5. /\ SameTimer(c, r) /\ SameAsked(c, r) /\ SameRun(c, r) /\ r.chan = c.chan
      /\ r.dynamic = c.dynamic /\ r.error = c.error /\ r.pad = c.pad /\ r.n = c.n
      /\ r.total = c.total /\ r.ring = c.ring /\ r.dmaed = c.dmaed /\ r.count = c.count
      /\ r.old = c.old
  <2> HIDE DEF x, c
  <2> QED BY <1>1 DEF Pde, SameTimer, SameAsked, SameRun
<1> HIDE DEF c, r, samples
<1>6. /\ SameTimer(p, r) /\ SameAsked(p, r) /\ SameRun(p, r) /\ r.chan = p.chan
      /\ r.dynamic = p.dynamic /\ r.error = p.error /\ r.n = p.n /\ r.ring = p.ring
      /\ Counted(r, u) /\ Padded(r) /\ r.total = p.total
  BY <1>1, <1>5 DEF SameTimer, SameAsked, SameRun, Counted, Padded
<1>7. GoesOn(p, r, u)
  BY <1>6 DEF GoesOn, SameChans
<1>8. u * p.n \in Nat
  BY ProductNat DEF Pde
<1>9. CASE q = Fail(c, "PacerOverrun")
  <2>1. q \in Pde /\ Ended(c, q) /\ q.dmaed = c.dmaed
    BY <1>1, <1>9, FailFacts DEF Errors
  <2>2. Ended(p, q)
    BY <1>1, <2>1, EndedThrough
  <2>3. q.dmaed = u * q.n /\ q.n = p.n
    BY <1>1, <2>1 DEF Counted, Ended
  <2> QED BY <1>8, <2>1, <2>2, <2>3
<1>10. CASE q = Fail(r, "BufferUnderrun")
  <2>1. q \in Pde /\ Ended(r, q) /\ q.dmaed = r.dmaed
    BY <1>4, <1>10, FailFacts DEF Errors
  <2>2. Ended(p, q)
    BY <1>6, <2>1, EndedThrough
  <2>3. q.dmaed = u * q.n /\ q.n = p.n
    BY <1>6, <2>1 DEF Counted, Ended
  <2> QED BY <1>8, <2>1, <2>2, <2>3
<1>11. CASE r.dmaed >= p.total /\ q = Finished(r)
  <2>1. q \in Pde /\ Ended(r, q) /\ q.dmaed = r.total
    BY <1>4, <1>11, FinishedFacts
  <2>2. Ended(p, q)
    BY <1>6, <2>1, EndedThrough
  <2>3. q.dmaed = p.total /\ r.dmaed = u * q.n /\ q.n = p.n
    BY <1>6, <2>1 DEF Counted, Ended
  <2>4. p.total \in Nat
    BY DEF Pde
  <2> QED BY <1>8, <1>11, <2>1, <2>2, <2>3, <2>4
<1>12. CASE q = r
  <2>1. q.dmaed = u * q.n /\ q.n = p.n
    BY <1>6, <1>12 DEF Counted
  <2> QED BY <1>4, <1>7, <1>8, <1>12, <2>1
<1>13. CASE q = PrepareToStop(CopyUserSamples(r, samples))
  <2> DEFINE e == CopyUserSamples(r, samples)
  <2>1. e \in Pde /\ Carried(r, e) /\ e.pad = r.pad
    BY <1>1, <1>4, CopyUserSamplesFacts
  <2>2. Padded(e)
    <3> HIDE DEF e
    <3> QED BY <1>6, <2>1, CarriedPad
  <2> HIDE DEF e
  <2>3. q = PrepareToStop(e)
    BY <1>13 DEF e
  <2>4. q \in Pde /\ Carried(e, q) /\ Padded(q)
    BY <2>1, <2>2, <2>3, PrepareToStopFacts
  <2>5. Carried(r, q)
    BY <2>1, <2>4, CarriedOn
  <2>6. GoesOn(p, q, u)
    BY <1>6, <2>4, <2>5 DEF GoesOn, Carried, SameTimer, SameAsked, SameRun, SameCount,
                            SameChans, Counted
  <2>7. q.dmaed = u * q.n /\ q.n = p.n
    BY <2>6 DEF GoesOn, Counted
  <2> QED BY <1>8, <2>4, <2>6, <2>7
<1> QED BY <1>3, <1>9, <1>10, <1>11, <1>12, <1>13
-----------------------------------------------------------------------------
(* Steps that leave the DMA stopped.                                       *)
SameNoted(h, k) ==
  /\ k.seen = h.seen /\ k.stopped = h.stopped /\ k.late = h.late /\ k.overtook = h.overtook
  /\ k.owner = h.owner /\ k.overflow = h.overflow /\ k.spill = h.spill /\ k.null = h.null

LEMMA RestedFacts ==
  ASSUME NEW h \in History, NEW k, k = Rested(h)
  PROVE  k \in History /\ SameNoted(h, k) /\ (pde'.dma => k.updates = h.updates)
<1>1. CASE pde'.dma
  <2>1. k = h
    BY <1>1 DEF Rested
  <2> QED BY <2>1 DEF SameNoted
<1>2. CASE ~pde'.dma
  <2>1. k = [h EXCEPT !.updates = h.seen, !.clean = FALSE, !.bad = FALSE, !.stop = 0,
                      !.single = 1]
    BY <1>2 DEF Rested
  <2>2. h.seen \in Nat /\ 0 \in Nat /\ 1 \in Nat
    BY DEF History
  <2>3. k \in History
    BY <2>1, <2>2 DEF History
  <2>4. SameNoted(h, k)
    BY <2>1 DEF SameNoted, History
  <2> QED BY <1>2, <2>3, <2>4
<1> QED BY <1>1, <1>2

LEMMA RestingBoard ==
  ASSUME board \in Fed, Len(board.fifo) <= FifoDepth, BoardRests
  PROVE  /\ board' \in Fed /\ Len(board'.fifo) <= FifoDepth
         /\ pde'.dma => board' = board
BY InitBoardFacts DEF BoardRests

(* No transfer begins, and none gets another length.                       *)
NoNewTransfer(p, q) ==
  /\ q.single = p.single
  /\ \A c \in Chans : q.chan[c].mdl => /\ p.chan[c].mdl /\ q.chan[c].buf
                                       /\ q.chan[c].size = p.chan[c].size

LEMMA StillTransferred ==
  ASSUME DacTypes, Transferred, NoNewTransfer(pde, pde'), hist'.owner = hist.owner
  PROVE  Transferred'
<1>1. Owned(pde)'
  BY DEF Transferred, Owned, NoNewTransfer
<1>2. ASSUME NEW c \in Chans, pde'.chan[c].mdl PROVE hist'.owner \in Chans
  BY <1>2 DEF Transferred, NoNewTransfer
<1>3. ASSUME hist'.owner \in Chans, pde'.chan[hist'.owner].mdl
      PROVE  pde'.chan[hist'.owner].size = pde'.single
  <2>1. PICK o \in Chans : o = hist.owner
    BY <1>3
  <2>2. pde'.chan[o].mdl /\ hist'.owner = o
    BY <1>3, <2>1
  <2>3. pde.chan[o].mdl /\ pde'.chan[o].size = pde.chan[o].size /\ pde'.single = pde.single
    BY <2>2 DEF NoNewTransfer
  <2>4. pde.chan[o].size = pde.single
    BY <2>1, <2>3 DEF Transferred
  <2> QED BY <2>2, <2>3, <2>4
<1> QED BY <1>1, <1>2, <1>3 DEF Transferred

LEMMA QuietEnd ==
  ASSUME DacInv, Quiet, pde' \in Pde, Quieted(pde'), pde'.n = pde.n, pde'.dmaed = pde.dmaed,
         NoNewTransfer(pde, pde'), hist' = Rested(hist), BoardRests, UNCHANGED call
  PROVE  DacInv'
<1>1. hist' \in History /\ SameNoted(hist, hist')
  BY RestedFacts DEF DacInv, DacTypes
<1>2. board' \in Fed /\ Len(board'.fifo) <= FifoDepth
  BY RestingBoard DEF DacInv, DacTypes, Fetching
<1>3. DacTypes'
  BY <1>1, <1>2 DEF DacInv, DacTypes
<1>4. Transferred'
  BY <1>1, StillTransferred DEF DacInv, SameNoted
<1>5. ~pde'.active /\ ~pde'.dma /\ ~pde'.pacer
  BY DEF Quieted
<1>6. Fetching'
  BY <1>2, <1>5 DEF Fetching
<1>7. Counting'
  <2>1. pde'.dmaed <= hist'.seen * pde'.n
    BY <1>1 DEF DacInv, Counting, SameNoted
  <2> QED BY <1>5, <2>1 DEF Counting
<1>8. Served'
  BY <1>5 DEF Served, Quiet, Quieted
<1>9. Fitting'
  BY DEF Fitting, Quiet
<1> QED BY <1>3, <1>4, <1>6, <1>7, <1>8, <1>9 DEF DacInv

LEMMA DisarmStep ==
  ASSUME DacInv, Quiet, pde' = Disarm(pde), hist' = Rested(hist), BoardRests, UNCHANGED call
  PROVE  DacInv'
<1>1. /\ pde' \in Pde /\ ~pde'.active /\ ~pde'.dma /\ ~pde'.pacer
      /\ SameAsked(pde, pde') /\ SameChans(pde, pde')
      /\ pde'.n = pde.n /\ pde'.dmaed = pde.dmaed
  BY DisarmFacts DEF DacInv, DacTypes
<1>2. Quieted(pde')
  BY <1>1 DEF Quieted
<1>3. NoNewTransfer(pde, pde')
  BY <1>1 DEF NoNewTransfer, SameAsked, SameChans, DacInv, Transferred, Owned
<1> QED BY <1>1, <1>2, <1>3, QuietEnd

LEMMA EndedTransfers ==
  ASSUME NEW p, NEW q, Owned(p), Ended(p, q)
  PROVE  NoNewTransfer(p, q) /\ \A c \in Chans : c # Digital => ~q.chan[c].mdl
BY DEF NoNewTransfer, SameAsked, Owned, Ended

LEMMA EndStep ==
  ASSUME DacInv, Quiet, pde' = Stop(Disarm(pde)), hist' = Rested(hist), BoardRests,
         UNCHANGED call
  PROVE  DacInv'
<1>1. pde' \in Pde /\ Ended(pde, pde') /\ pde'.dmaed = pde.dmaed
  BY EndFacts DEF DacInv, DacTypes
<1>2. Quieted(pde') /\ pde'.n = pde.n
  BY <1>1 DEF Ended
<1>3. NoNewTransfer(pde, pde')
  <2>1. Owned(pde)
    BY DEF DacInv, Transferred
  <2> QED BY <1>1, <2>1, EndedTransfers
<1> QED BY <1>1, <1>2, <1>3, QuietEnd

LEMMA OpenedFacts ==
  ASSUME NEW p \in Pde, NEW q, q = Opened(p)
  PROVE  /\ q \in Pde /\ SameRun(p, q) /\ SameCount(p, q) /\ SameAsked(p, q)
         /\ \A c \in Chans :
              /\ q.chan[c].mdl = p.chan[c].mdl /\ q.chan[c].buf = p.chan[c].buf
              /\ q.chan[c].size = p.chan[c].size /\ q.chan[c].room = p.chan[c].room
              /\ c # Digital => q.chan[c].mode = "voltage"
<1> DEFINE ch == [c \in Chans |->
                    IF c = Digital THEN p.chan[c] ELSE [p.chan[c] EXCEPT !.mode = "voltage"]]
<1>1. ASSUME NEW c \in Chans
      PROVE  /\ ch[c] \in Channel /\ ch[c].mdl = p.chan[c].mdl /\ ch[c].buf = p.chan[c].buf
             /\ ch[c].size = p.chan[c].size /\ ch[c].room = p.chan[c].room
             /\ c # Digital => ch[c].mode = "voltage"
  <2>1. p.chan[c] \in Channel
    BY DEF Pde
  <2> QED BY <2>1 DEF Channel, Modes3
<1>2. ch \in [Chans -> Channel]
  <2>1. \A c \in Chans : ch[c] \in Channel
    BY <1>1
  <2> QED BY <2>1
<1>3. \A c \in Chans :
        /\ ch[c].mdl = p.chan[c].mdl /\ ch[c].buf = p.chan[c].buf
        /\ ch[c].size = p.chan[c].size /\ ch[c].room = p.chan[c].room
        /\ c # Digital => ch[c].mode = "voltage"
  BY <1>1
<1>4. q = [p EXCEPT !.chan = ch]
  BY DEF Opened
<1> HIDE DEF ch
<1>5. q \in Pde
  BY <1>2, <1>4 DEF Pde
<1>6. q.chan = ch /\ SameRun(p, q) /\ SameCount(p, q) /\ SameAsked(p, q)
  BY <1>4 DEF Pde, SameRun, SameCount, SameAsked
<1> QED BY <1>3, <1>5, <1>6

LEMMA ReopenStep ==
  ASSUME DacInv, Quiet, NEW p \in Pde, pde' = Opened(p), Quieted(p), p.n = pde.n,
         p.dmaed = pde.dmaed, NoNewTransfer(pde, p), hist' = Rested(hist), BoardRests,
         UNCHANGED call
  PROVE  DacInv'
<1>1. /\ pde' \in Pde /\ SameRun(p, pde') /\ SameCount(p, pde') /\ SameAsked(p, pde')
      /\ \A c \in Chans :
           /\ pde'.chan[c].mdl = p.chan[c].mdl /\ pde'.chan[c].buf = p.chan[c].buf
           /\ pde'.chan[c].size = p.chan[c].size
  BY OpenedFacts
<1>2. Quieted(pde') /\ pde'.n = pde.n /\ pde'.dmaed = pde.dmaed
  BY <1>1 DEF Quieted, SameRun, SameCount
<1>3. NoNewTransfer(pde, pde')
  BY <1>1 DEF NoNewTransfer, SameAsked
<1> QED BY <1>1, <1>2, <1>3, QuietEnd
-----------------------------------------------------------------------------
(* Steps that leave the DMA as it is.                                      *)
SameDma(p, q) ==
  /\ SameCount(p, q) /\ q.active = p.active /\ q.dma = p.dma
  /\ q.pad = p.pad /\ q.ring = p.ring /\ q.dynamic = p.dynamic

LEMMA SameFetching ==
  ASSUME DacTypes, Fetching, SameDma(pde, pde'), board' = board
  PROVE  Fetching'
<1>1. pde'.n = pde.n /\ pde'.pad = pde.pad /\ pde'.ring = pde.ring /\ pde'.dma = pde.dma
      /\ pde'.dynamic = pde.dynamic
  BY DEF SameDma, SameCount
<1>2. pde.dma => Padded(pde)' /\ Feeds(pde, board)'
  BY <1>1 DEF Fetching, Padded, Feeds
<1> QED BY <1>1, <1>2 DEF Fetching

LEMMA SameCounting ==
  ASSUME DacTypes, Counting, SameDma(pde, pde'), board' = board,
         hist'.seen = hist.seen, pde.dma => hist'.updates = hist.updates
  PROVE  Counting'
BY DEF Counting, SameDma, SameCount, Counted

(* An ioctl that neither starts nor ends a waveform.                       *)
LEMMA LiveStep ==
  ASSUME DacInv, Quiet, pde' \in Pde, SameDma(pde, pde'), Transferred',
         hist' \in History, hist'.seen = hist.seen,
         pde.dma => hist'.updates = hist.updates,
         hist'.overtook = hist.overtook, hist'.late = hist.late,
         hist.stopped => hist'.stopped,
         pde'.error \in {pde.error, "None"}, pde'.pacer => pde.pacer \/ pde.active,
         hist'.stopped \/ ~pde.active \/ SameTimer(pde, pde'),
         board' = board, UNCHANGED call
  PROVE  DacInv'
<1>1. DacTypes'
  BY DEF DacInv, DacTypes
<1>2. Fetching'
  BY SameFetching DEF DacInv
<1>3. Counting'
  BY SameCounting DEF DacInv
<1>4. Served'
  <2>1. call = "none" /\ call' = "none" /\ pde'.active = pde.active /\ pde'.dma = pde.dma
    BY DEF Quiet, SameDma
  <2>2. pde'.active /\ ~hist'.overtook => pde'.dma
    BY <2>1 DEF DacInv, Served
  <2>3. pde'.active /\ Watched' => pde'.timer /\ ~pde'.die
    BY <2>1 DEF DacInv, Served, Watched, SameTimer
  <2>4. pde'.error # "None" => Quieted(pde')
    BY <2>1 DEF DacInv, Served, Quieted
  <2> QED BY <2>1, <2>2, <2>3, <2>4 DEF Served
<1>5. Fitting'
  BY DEF Fitting, Quiet
<1> QED BY <1>1, <1>2, <1>3, <1>4, <1>5 DEF DacInv

LEMMA ModeStep ==
  ASSUME DacInv, Quiet, NEW c \in Chans, NEW m \in Modes3, DacMode(c, m)
  PROVE  DacInv'
<1>1. pde \in Pde /\ pde' = SetMode(pde, c, m) /\ board' = board /\ hist' = hist /\ call' = call
  BY DEF DacInv, DacTypes, DacMode
<1>2. /\ pde' \in Pde
      /\ SameTimer(pde, pde') /\ SameCount(pde, pde') /\ SameAsked(pde, pde')
      /\ pde'.active = pde.active /\ pde'.dma = pde.dma /\ pde'.pacer = pde.pacer
      /\ pde'.dynamic = pde.dynamic /\ pde'.error = pde.error /\ pde'.pad = pde.pad
      /\ pde'.ring = pde.ring
      /\ \A d \in Chans :
           /\ pde'.chan[d].mdl = pde.chan[d].mdl /\ pde'.chan[d].buf = pde.chan[d].buf
           /\ pde'.chan[d].size = pde.chan[d].size
  BY <1>1, SetModeFacts
<1>3. SameDma(pde, pde')
  BY <1>2 DEF SameDma
<1>4. Transferred'
  <2>1. NoNewTransfer(pde, pde')
    BY <1>2 DEF NoNewTransfer, SameAsked, DacInv, Transferred, Owned
  <2> QED BY <1>1, <2>1, StillTransferred DEF DacInv
<1>5. hist' \in History
  BY <1>1 DEF DacInv, DacTypes
<1> QED BY <1>1, <1>2, <1>3, <1>4, <1>5, LiveStep

LEMMA ConfigureStep ==
  ASSUME DacInv, Quiet, NEW conf \in Conf, DacConfigure(conf)
  PROVE  DacInv'
<1>1. pde \in Pde /\ pde' = [pde EXCEPT !.conf = conf] /\ board' = board /\ hist' = hist
      /\ call' = call
  BY DEF DacInv, DacTypes, DacConfigure
<1>2. pde' \in Pde
  BY <1>1 DEF Pde
<1>3. /\ SameDma(pde, pde') /\ SameTimer(pde, pde') /\ pde'.pacer = pde.pacer
      /\ pde'.error = pde.error /\ pde'.chan = pde.chan /\ pde'.single = pde.single
  BY <1>1 DEF Pde, SameDma, SameTimer, SameCount
<1>4. Transferred'
  <2>1. NoNewTransfer(pde, pde')
    BY <1>3 DEF NoNewTransfer, DacInv, Transferred, Owned
  <2> QED BY <1>1, <2>1, StillTransferred DEF DacInv
<1>5. hist' \in History
  BY <1>1 DEF DacInv, DacTypes
<1> QED BY <1>1, <1>2, <1>3, <1>4, <1>5, LiveStep

LEMMA GetStatusStep ==
  ASSUME DacInv, Quiet, DacGetStatus
  PROVE  DacInv'
<1>1. pde \in Pde /\ pde' = [pde EXCEPT !.error = "None"] /\ board' = board /\ hist' = hist
      /\ call' = call
  BY DEF DacInv, DacTypes, DacGetStatus
<1>2. pde' \in Pde
  BY <1>1 DEF Pde, Errors
<1>3. /\ SameDma(pde, pde') /\ SameTimer(pde, pde') /\ pde'.pacer = pde.pacer
      /\ pde'.error = "None" /\ pde'.chan = pde.chan /\ pde'.single = pde.single
  BY <1>1 DEF Pde, SameDma, SameTimer, SameCount
<1>4. Transferred'
  <2>1. NoNewTransfer(pde, pde')
    BY <1>3 DEF NoNewTransfer, DacInv, Transferred, Owned
  <2> QED BY <1>1, <2>1, StillTransferred DEF DacInv
<1>5. hist' \in History
  BY <1>1 DEF DacInv, DacTypes
<1> QED BY <1>1, <1>2, <1>3, <1>4, <1>5, LiveStep

LEMMA SoftTrigStep ==
  ASSUME DacInv, Quiet, DacSoftTrig
  PROVE  DacInv'
<1>1. pde \in Pde /\ pde' = [pde EXCEPT !.pacer = TRUE] /\ board' = board /\ hist' = hist
      /\ call' = call /\ pde.active
  BY DEF DacInv, DacTypes, DacSoftTrig
<1>2. pde' \in Pde
  BY <1>1 DEF Pde
<1>3. /\ SameDma(pde, pde') /\ SameTimer(pde, pde') /\ pde'.error = pde.error
      /\ pde'.chan = pde.chan /\ pde'.single = pde.single
  BY <1>1 DEF Pde, SameDma, SameTimer, SameCount
<1>4. Transferred'
  <2>1. NoNewTransfer(pde, pde')
    BY <1>3 DEF NoNewTransfer, DacInv, Transferred, Owned
  <2> QED BY <1>1, <2>1, StillTransferred DEF DacInv
<1>5. hist' \in History
  BY <1>1 DEF DacInv, DacTypes
<1> QED BY <1>1, <1>2, <1>3, <1>4, <1>5, LiveStep

LEMMA StopStep ==
  ASSUME DacInv, Quiet, DacStop
  PROVE  DacInv'
<1> DEFINE x == IF hist.stopped \/ pde.active THEN TRUE ELSE FALSE
<1>1. pde \in Pde /\ pde' = Stop(pde) /\ board' = board /\ call' = call
      /\ hist' = [hist EXCEPT !.stopped = x]
  <2>1. (hist.stopped \/ pde.active) = x
    OBVIOUS
  <2> QED BY <2>1 DEF DacInv, DacTypes, DacStop
<1>2. /\ pde' \in Pde
      /\ SameRun(pde, pde') /\ SameCount(pde, pde') /\ SameAsked(pde, pde')
      /\ pde'.dynamic = pde.dynamic /\ pde'.error = pde.error /\ pde'.pad = pde.pad
      /\ pde'.ring = pde.ring
      /\ \A c \in Chans :
           /\ pde'.chan[c].size = pde.chan[c].size
           /\ c = Digital => pde'.chan[c] = pde.chan[c]
           /\ c # Digital => (pde'.chan[c].mdl <=> pde.chan[c].mdl /\ ~pde.chan[c].buf)
  <2>1. pde \in Pde /\ pde' = Stop(pde)
    BY <1>1
  <2>2. pde' \in Pde /\ Stopped(pde, pde')
    BY <2>1, StopFacts
  <2> HIDE DEF x
  <2> QED BY <2>2 DEF Stopped
<1>3. SameDma(pde, pde')
  BY <1>2 DEF SameDma, SameRun
<1>4. hist \in History /\ x \in BOOLEAN /\ (hist.stopped => x) /\ (pde.active => x)
  BY DEF DacInv, DacTypes
<1> HIDE DEF x
<1>5. hist' \in History /\ hist'.stopped = x /\ hist'.updates = hist.updates /\ hist'.seen = hist.seen /\ hist'.owner = hist.owner
      /\ hist'.overtook = hist.overtook /\ hist'.late = hist.late
  BY <1>1, <1>4 DEF History
<1>6. Transferred'
  <2>1. NoNewTransfer(pde, pde')
    BY <1>2 DEF NoNewTransfer, SameAsked, DacInv, Transferred, Owned
  <2> QED BY <1>5, <2>1, StillTransferred DEF DacInv
<1>7. pde'.pacer = pde.pacer
  BY <1>2 DEF SameRun
<1> QED BY <1>1, <1>2, <1>3, <1>4, <1>5, <1>6, <1>7, LiveStep

LEMMA ConfPde ==
  ASSUME NEW p \in Pde, NEW conf \in Conf, NEW q, q = [p EXCEPT !.conf = conf]
  PROVE  /\ q \in Pde /\ SameDma(p, q) /\ SameTimer(p, q) /\ q.pacer = p.pacer
         /\ q.error = p.error /\ q.chan = p.chan /\ q.single = p.single
         /\ q.enabled = p.enabled
<1>1. q \in Pde
  BY DEF Pde
<1>2. /\ SameDma(p, q) /\ SameTimer(p, q) /\ q.pacer = p.pacer
      /\ q.error = p.error /\ q.chan = p.chan /\ q.single = p.single /\ q.enabled = p.enabled
  BY DEF Pde, SameDma, SameTimer, SameCount
<1> QED BY <1>1, <1>2

(* A dacStart, with or without a dacConfigure before it.                   *)
LEMMA StartStep ==
  ASSUME DacInv, Quiet, NEW conf \in Conf, NEW c \in Chans, NEW len \in Nat \ {0},
         pde' = Start([pde EXCEPT !.conf = conf], c, len),
         NEW x \in BOOLEAN, x <=> pde'.chan[c].room < len,
         hist' = [hist EXCEPT !.overflow = x, !.owner = c],
         board' = board, UNCHANGED call
  PROVE  /\ DacInv' /\ (pde.chan[c].room = 0 => ~hist'.overflow)
         /\ \A d \in Chans : pde'.chan[d].mode = pde.chan[d].mode
         /\ \A d \in Chans : d # c => pde'.chan[d].room = pde.chan[d].room
<1> DEFINE p == [pde EXCEPT !.conf = conf]
<1>1. /\ p \in Pde /\ SameDma(pde, p) /\ SameTimer(pde, p) /\ p.pacer = pde.pacer
      /\ p.error = pde.error /\ p.chan = pde.chan /\ p.single = pde.single
  BY ConfPde DEF DacInv, DacTypes
<1>2. pde' = Start(p, c, len)
  OBVIOUS
<1>3. hist' = [hist EXCEPT !.overflow = x, !.owner = c] /\ hist \in History
  BY DEF DacInv, DacTypes
<1>4. c \in 0..Digital /\ (~(pde'.chan[c].room < len) => ~x)
  BY DacAssumption
<1> HIDE DEF p
<1>5. /\ pde' \in Pde
      /\ SameTimer(p, pde') /\ SameCount(p, pde') /\ SameRun(p, pde')
      /\ pde'.dynamic = p.dynamic /\ pde'.error = p.error /\ pde'.pad = p.pad
      /\ pde'.ring = p.ring /\ pde'.single = len
      /\ pde'.chan[c].mdl /\ pde'.chan[c].buf /\ pde'.chan[c].size = len
      /\ pde'.chan[c].mode = p.chan[c].mode
      /\ pde'.chan[c].room = IF p.chan[c].room = 0 THEN len ELSE p.chan[c].room
      /\ \A d \in Chans : d # c => pde'.chan[d] = p.chan[d]
  <2>1. p \in Pde
    BY <1>1
  <2>2. pde' \in Pde /\ Started(p, c, len, pde')
    BY <1>2, <2>1, StartFacts
  <2> QED BY <2>2 DEF Started
<1>6. hist' \in History /\ hist'.overflow = x /\ hist'.owner = c
      /\ hist'.updates = hist.updates /\ hist'.seen = hist.seen
      /\ hist'.overtook = hist.overtook /\ hist'.late = hist.late
      /\ hist'.stopped = hist.stopped
  BY <1>3, <1>4 DEF History
<1>7. SameDma(pde, pde')
  BY <1>1, <1>5 DEF SameDma, SameCount, SameRun
<1>8. SameTimer(pde, pde') /\ pde'.error = pde.error /\ pde'.pacer = pde.pacer
  BY <1>1, <1>5 DEF SameTimer, SameRun
<1>9. Transferred'
  <2>1. Owned(pde)'
    <3>1. SUFFICES ASSUME NEW d \in Chans, pde'.chan[d].mdl
                   PROVE  pde'.chan[d].buf /\ pde'.single > 0
      BY DEF Owned
    <3>2. pde'.single > 0
      BY <1>5
    <3>3. CASE d = c
      BY <1>5, <3>2, <3>3
    <3>4. CASE d # c
      <4>1. pde.chan[d].mdl /\ pde'.chan[d].buf = pde.chan[d].buf
        BY <1>1, <1>5, <3>1, <3>4
      <4> QED BY <3>2, <4>1 DEF DacInv, Transferred, Owned
    <3> QED BY <3>3, <3>4
  <2>2. hist'.owner \in Chans /\ pde'.chan[hist'.owner].size = pde'.single
    BY <1>5, <1>6
  <2> QED BY <2>1, <2>2 DEF Transferred
<1>10. DacInv'
  BY <1>5, <1>6, <1>7, <1>8, <1>9, LiveStep
<1>11. pde.chan[c].room = 0 => ~hist'.overflow
  BY <1>1, <1>4, <1>5, <1>6
<1>12. ASSUME NEW d \in Chans
       PROVE  /\ pde'.chan[d].mode = pde.chan[d].mode
              /\ d # c => pde'.chan[d].room = pde.chan[d].room
  BY <1>1, <1>5
<1> QED BY <1>10, <1>11, <1>12

(* A dacStart for which there is no memory.                                *)
LEMMA NoMemoryStep ==
  ASSUME DacInv, Quiet, NEW conf \in Conf, NEW c \in Chans,
         pde' = [pde EXCEPT !.conf = conf, !.chan[c].mdl = FALSE], hist' = hist,
         board' = board, UNCHANGED call
  PROVE  /\ DacInv'
         /\ \A d \in Chans : /\ pde'.chan[d].mode = pde.chan[d].mode
                             /\ pde'.chan[d].room = pde.chan[d].room
<1> DEFINE ch == [pde.chan EXCEPT ![c].mdl = FALSE]
<1>1. pde \in Pde /\ hist \in History
  BY DEF DacInv, DacTypes
<1>2. pde' = [pde EXCEPT !.conf = conf, !.chan = ch]
  OBVIOUS
<1>3. ASSUME NEW d \in Chans
      PROVE  /\ ch[d] \in Channel /\ ch[d].mode = pde.chan[d].mode
             /\ ch[d].room = pde.chan[d].room /\ ch[d].buf = pde.chan[d].buf
             /\ ch[d].size = pde.chan[d].size /\ (ch[d].mdl => pde.chan[d].mdl)
  <2>1. pde.chan[d] \in Channel /\ pde.chan \in [Chans -> Channel]
    BY <1>1 DEF Pde
  <2>2. CASE d = c
    <3>1. ch[d] = [pde.chan[d] EXCEPT !.mdl = FALSE]
      BY <2>1, <2>2
    <3> QED BY <2>1, <3>1 DEF Channel
  <2>3. CASE d # c
    BY <2>1, <2>3
  <2> QED BY <2>2, <2>3
<1>4. ch \in [Chans -> Channel]
  <2>1. \A d \in Chans : ch[d] \in Channel
    BY <1>3
  <2>2. DOMAIN ch = Chans /\ ch = [d \in DOMAIN ch |-> ch[d]]
    BY <1>1 DEF Pde
  <2> QED BY <2>1, <2>2
<1>5. \A d \in Chans :
        /\ ch[d].mode = pde.chan[d].mode
        /\ ch[d].room = pde.chan[d].room /\ ch[d].buf = pde.chan[d].buf
        /\ ch[d].size = pde.chan[d].size /\ (ch[d].mdl => pde.chan[d].mdl)
  BY <1>3
<1> HIDE DEF ch
<1>6. pde' \in Pde
  BY <1>1, <1>2, <1>4 DEF Pde
<1>7. /\ SameDma(pde, pde') /\ SameTimer(pde, pde') /\ pde'.pacer = pde.pacer
      /\ pde'.error = pde.error /\ pde'.chan = ch /\ pde'.single = pde.single
  BY <1>1, <1>2 DEF Pde, SameDma, SameTimer, SameCount
<1>8. Transferred'
  <2>1. NoNewTransfer(pde, pde')
    BY <1>5, <1>7 DEF NoNewTransfer, DacInv, Transferred, Owned
  <2> QED BY <2>1, StillTransferred DEF DacInv
<1>9. DacInv'
  BY <1>1, <1>6, <1>7, <1>8, LiveStep
<1> QED BY <1>5, <1>7, <1>9
-----------------------------------------------------------------------------
(* dacArm.                                                                 *)
LEMMA ArmFailsStep ==
  ASSUME DacInv, Quiet, DacArmFails
  PROVE  /\ DacInv' /\ hist'.overflow = hist.overflow
         /\ \A c \in Chans : pde'.chan[c].mode = pde.chan[c].mode
<1>1. /\ pde \in Pde /\ hist \in History /\ pde' = Rearmed(pde) /\ board' = board
      /\ call' = call /\ hist' = [hist EXCEPT !.updates = 0, !.seen = 0]
  BY DEF DacInv, DacTypes, DacArmFails
<1>2. /\ pde' \in Pde /\ ~pde'.active /\ ~pde'.dma /\ ~pde'.pacer
      /\ SameAsked(pde, pde') /\ SameChans(pde, pde')
      /\ pde'.n = pde.n /\ pde'.dmaed = 0
  BY <1>1, RearmedFacts
<1>3. hist' \in History /\ hist'.seen = 0 /\ hist'.owner = hist.owner
      /\ hist'.overflow = hist.overflow
  BY <1>1 DEF History
<1>4. DacTypes'
  BY <1>1, <1>2, <1>3 DEF DacInv, DacTypes
<1>5. Transferred'
  <2>1. NoNewTransfer(pde, pde')
    BY <1>2 DEF NoNewTransfer, SameAsked, SameChans, DacInv, Transferred, Owned
  <2> QED BY <1>3, <2>1, StillTransferred DEF DacInv
<1>6. Fetching'
  BY <1>1, <1>2 DEF DacInv, Fetching
<1>7. Counting'
  <2>1. pde'.n \in Nat
    BY <1>2 DEF Pde
  <2>2. 0 * pde'.n = 0
    BY <2>1
  <2> QED BY <1>2, <1>3, <2>2 DEF Counting
<1>8. Served'
  BY <1>1, <1>2 DEF Served, Quiet, Quieted
<1>9. Fitting'
  BY <1>1 DEF Fitting, Quiet
<1> QED BY <1>2, <1>3, <1>4, <1>5, <1>6, <1>7, <1>8, <1>9 DEF DacInv, SameChans

(* dacDisarm leaves what dacSetupBuffer looks at as it was.                *)
LEMMA SameSetup ==
  ASSUME NEW p, NEW q, SameChans(p, q), SameAsked(p, q)
  PROVE  /\ SetupError(q) = SetupError(p) /\ Static(q) = Static(p) /\ Dynamic(q) = Dynamic(p)
         /\ Held(q) = Held(p)
<1>1. Static(q) = Static(p) /\ Dynamic(q) = Dynamic(p) /\ Held(q) = Held(p)
  BY DEF Static, Dynamic, Waves, Held, SameChans
<1>2. NumWaves(q) = NumWaves(p)
  BY <1>1 DEF NumWaves
<1>3. Transfers(q) = Transfers(p)
  BY <1>1 DEF Transfers, Held
<1>4. \A c : q.chan[c].size = p.chan[c].size \/ c \notin Chans
  BY DEF SameChans
<1>5. NumWaves(p) # 0 => Transfers(p)[1] \in Chans
        /\ \A i \in 1..NumWaves(p) : Transfers(p)[i] \in Chans
  <2>1. ASSUME NumWaves(p) # 0, NEW i \in 1..NumWaves(p) PROVE Transfers(p)[i] \in Chans
    <3>1. i \in 1..Cardinality(Held(p))
      BY <2>1, WavesCounted
    <3>2. Transfers(p)[i] \in Held(p)
      BY <3>1, WavesCounted, Ordered DEF Transfers, Held
    <3> QED BY <3>2 DEF Held
  <2>2. NumWaves(p) # 0 => 1 \in 1..NumWaves(p)
    BY WavesCounted
  <2> QED BY <2>1, <2>2
<1>6. NumWaves(p) # 0 => (SizesEqual(q) <=> SizesEqual(p))
  BY <1>2, <1>3, <1>4, <1>5 DEF SizesEqual
<1>7. NumWaves(p) # 0 => q.chan[Transfers(q)[1]].size = p.chan[Transfers(p)[1]].size
  BY <1>3, <1>4, <1>5
<1>8. q.single = p.single
  BY DEF SameAsked
<1>9. CASE NumWaves(p) = 0
  BY <1>1, <1>2, <1>9 DEF SetupError
<1>10. CASE NumWaves(p) # 0
  BY <1>1, <1>2, <1>6, <1>7, <1>8, <1>10 DEF SetupError
<1> QED BY <1>1, <1>9, <1>10

(* If every channel that gives samples has a transfer, the periods fit.    *)
LEMMA CopyFits ==
  ASSUME NEW p \in Pde, Owned(p), SetupError(p) = "None", Dynamic(p) = {},
         Waves(p, "static") = Static(p)
  PROVE  /\ Copied(SetupBuffer(p)) <= RingSamples
         /\ \A c \in Waves(p, "static") : p.chan[c].buf
<1> DEFINE q == SetupBuffer(p)
           n == NumWaves(p)
           d == RingSamples \div (p.single * n)
<1>1. /\ q \in Pde /\ q.n = n /\ q.chan = p.chan /\ q.single = p.single /\ ~q.dynamic
      /\ q.single \in Nat \ {0} /\ q.single * q.n <= RingSamples
  BY SetupBufferFacts DEF SameAsked
<1>2. n \in Nat \ {0} /\ n = Cardinality(Waves(p, "static"))
  BY WavesCounted, SetupOk
<1>3. Waves(q, "static") = Waves(p, "static")
  BY <1>1 DEF Waves
<1>4. Cardinality(DOMAIN Period(q)) = n * p.single
  <2> HIDE DEF q
  <2> QED BY <1>1, <1>2, <1>3, PeriodType
<1>5. Copied(q) = n * p.single * d
  BY <1>1, <1>4 DEF Copied
<1> HIDE DEF q, n
<1>6. p.single * n * d \in 1..RingSamples
  BY <1>1, <1>2, RingOfPeriods
<1>7. n * p.single = p.single * n
  BY <1>1, <1>2, ProductNat
<1>8. Copied(q) <= RingSamples
  <2>1. n * p.single * d = p.single * n * d
    BY <1>7
  <2>2. Copied(q) \in 1..RingSamples
    BY <1>5, <1>6, <2>1
  <2> QED BY <2>2, Sizes
<1>9. \A c \in Waves(p, "static") : p.chan[c].buf
  BY DEF Static, Owned, Waves
<1> QED BY <1>8, <1>9 DEF q

(* Where transfers are of waveform channels only, each has the length of   *)
(* each other.                                                             *)
LEMMA OneLength ==
  ASSUME NEW p \in Pde, SetupError(p) = "None", NumWaves(p) = Cardinality(Held(p)),
         NEW c \in Held(p), NEW d \in Held(p)
  PROVE  p.chan[c].size = p.chan[d].size
<1> DEFINE n == NumWaves(p)
           t == Transfers(p)
<1>1. \E i \in 1..n : t[i] = c
  BY WavesCounted, Ordered DEF Transfers, Held
<1>2. \E i \in 1..n : t[i] = d
  BY WavesCounted, Ordered DEF Transfers, Held
<1>3. \A i \in 1..n : p.chan[t[i]].size = p.chan[t[1]].size
  BY SetupOk DEF SizesEqual
<1> QED BY <1>1, <1>2, <1>3

LEMMA NoOddOne ==
  ASSUME NEW p \in Pde, ~OddOne(p)
  PROVE  /\ Chans \ Waves(p, "voltage") = Held(p)
         /\ Dynamic(p) = {} => /\ Waves(p, "static") = Static(p) /\ Static(p) = Held(p)
<1>1. ASSUME NEW c \in Chans
      PROVE  (p.chan[c].mdl <=> p.chan[c].mode # "voltage") /\ p.chan[c].mode \in Modes3
  <2>1. p.chan[c].mdl = (p.chan[c].mode # "voltage")
    BY DEF OddOne
  <2> QED BY <2>1 DEF Pde, Channel
<1>2. Chans \ Waves(p, "voltage") = Held(p)
  BY <1>1 DEF Waves, Held
<1>3. ASSUME Dynamic(p) = {}
      PROVE  /\ Waves(p, "static") = Static(p) /\ Static(p) = Held(p)
  <2>1. \A c \in Chans : ~(p.chan[c].mode = "dynamic" /\ p.chan[c].mdl)
    BY <1>3 DEF Dynamic, Waves
  <2> QED BY <1>1, <2>1 DEF Waves, Held, Static, Modes3
<1> QED BY <1>2, <1>3

LEMMA OnlyDigitalWaves ==
  ASSUME NEW p \in Pde, SetupError(p) = "None", Dynamic(p) = {}, AnalogQuiet(p)
  PROVE  Waves(p, "static") = Static(p)
<1>1. Static(p) # {}
  <2>1. Cardinality({}) = 0
    BY FS_EmptySet
  <2> QED BY <2>1, WavesCounted, SetupOk
<1>2. \A c \in Waves(p, "static") : c = Digital
  BY DEF AnalogQuiet, Waves
<1> QED BY <1>1, <1>2 DEF Static

LEMMA ArmBeginStep ==
  ASSUME DacInv, Quiet, DacArmBegin
  PROVE  /\ DacInv' /\ ~hist'.overflow /\ call' # "none"
         /\ \A c \in Chans : pde'.chan[c].mode = pde.chan[c].mode
<1> DEFINE p == Rearmed(pde)
           cl == IF Clean(p) THEN TRUE ELSE FALSE
           nl == IF ~pde'.dynamic /\ \E c \in Waves(p, "static") : ~p.chan[c].buf
                 THEN TRUE ELSE FALSE
           sp == IF ~pde'.dynamic /\ Copied(SetupBuffer(p)) > RingSamples THEN TRUE ELSE FALSE
           st == p.conf.stop
           si == p.single
<1>1. /\ pde \in Pde /\ hist \in History /\ pde' = ArmedDma(p) /\ board' = BoardStart(pde')
      /\ call' = "armed" /\ SetupError(pde) = "None"
  BY DEF DacInv, DacTypes, DacArmBegin
<1>2. hist' = [InitHist EXCEPT !.clean = cl, !.null = nl, !.spill = sp,
                               !.owner = hist.owner, !.stop = st, !.single = si]
  <2>1. /\ Clean(p) = cl
        /\ (~pde'.dynamic /\ \E c \in Waves(p, "static") : ~p.chan[c].buf) = nl
        /\ (~pde'.dynamic /\ Copied(SetupBuffer(p)) > RingSamples) = sp
    BY DEF Clean
  <2>2. hist' = [InitHist EXCEPT
                   !.clean = Clean(p),
                   !.null = (~pde'.dynamic /\ \E c \in Waves(p, "static") : ~p.chan[c].buf),
                   !.spill = (~pde'.dynamic /\ Copied(SetupBuffer(p)) > RingSamples),
                   !.owner = hist.owner, !.stop = st, !.single = si]
    BY DEF DacArmBegin
  <2> HIDE DEF cl, nl, sp, p, st, si
  <2> QED BY <2>1, <2>2
<1>3. /\ p \in Pde /\ ~p.active
      /\ SameTimer(pde, p) /\ SameAsked(pde, p) /\ SameChans(pde, p)
      /\ p.dmaed = 0 /\ p.count = 0 /\ p.old = 0
  BY <1>1, RearmedFacts
<1>4. /\ cl \in BOOLEAN /\ nl \in BOOLEAN /\ sp \in BOOLEAN
      /\ nl => ~pde'.dynamic /\ \E c \in Waves(p, "static") : ~p.chan[c].buf
      /\ sp => ~pde'.dynamic /\ Copied(SetupBuffer(p)) > RingSamples
  OBVIOUS
<1> HIDE DEF p, cl, nl, sp
<1>5. st \in Nat /\ si \in Nat
  BY <1>3 DEF Pde, Conf
<1> HIDE DEF st, si
<1>6. hist' \in History /\ hist'.null = nl /\ hist'.spill = sp /\ hist'.owner = hist.owner
      /\ hist'.seen = 0 /\ hist'.updates = 0 /\ ~hist'.overflow
  <2>1. InitHist \in History
    BY DEF InitHist, History, Digital
  <2>2. InitHist.seen = 0 /\ InitHist.updates = 0 /\ ~InitHist.overflow
    BY DEF InitHist
  <2>3. hist.owner \in 0..Digital
    BY <1>1 DEF History
  <2>4. hist' \in History
    BY <1>2, <1>4, <1>5, <2>1, <2>3 DEF History
  <2>5. hist'.null = nl /\ hist'.spill = sp /\ hist'.owner = hist.owner
        /\ hist'.seen = InitHist.seen /\ hist'.updates = InitHist.updates
        /\ hist'.overflow = InitHist.overflow
    BY <1>2, <2>1 DEF History
  <2> QED BY <2>2, <2>4, <2>5
<1>7. Owned(p) /\ SetupError(p) = "None"
  <2>1. Owned(p)
    BY <1>3 DEF DacInv, Transferred, Owned, SameChans, SameAsked
  <2> QED BY <1>1, <1>3, <2>1, SameSetup
<1>8. /\ pde' \in Pde /\ Padded(pde') /\ pde'.n = NumWaves(p)
      /\ SameTimer(p, pde') /\ SameAsked(p, pde') /\ SameChans(p, pde')
      /\ pde'.active = p.active /\ pde'.dma
      /\ pde'.dmaed = p.dmaed /\ pde'.count = p.count /\ pde'.old = p.old
      /\ pde'.dynamic <=> Dynamic(p) # {}
      /\ pde'.enabled = Chans \ Waves(p, "voltage")
  BY <1>1, <1>3, <1>7, ArmedDmaFacts
<1>9. /\ board' \in Fed /\ Feeds(pde', board') /\ Len(board'.fifo) = FifoDepth
      /\ board'.count = 0
  BY <1>1, <1>8, BoardStartFacts
<1>10. DacTypes'
  BY <1>1, <1>6, <1>8, <1>9 DEF DacTypes
<1>11. Transferred'
  <2>1. NoNewTransfer(pde, pde')
    BY <1>3, <1>8 DEF NoNewTransfer, SameAsked, SameChans, DacInv, Transferred, Owned
  <2> QED BY <1>6, <2>1, StillTransferred DEF DacInv
<1>12. Fetching'
  <2>1. FifoDepth \in Nat
    BY DacAssumption
  <2> QED BY <1>8, <1>9, <2>1 DEF Fetching
<1>13. Counting'
  <2>1. Word \in Nat \ {0} /\ MaxGap \in Nat
    BY DacAssumption
  <2>2. 0 % Word = 0
    <3>1. 0 % Word \in 0..(Word - 1) /\ 0 = Word * (0 \div Word) + (0 % Word)
          /\ 0 \div Word \in Int
      BY <2>1, ModRange
    <3>2. 0 = 0 * Word + 0 /\ 0 \in 0..(Word - 1) /\ 0 \in Int
      BY <2>1
    <3> QED BY <2>1, <3>2, DivUnique
  <2>3. pde'.n \in Nat
    BY <1>8 DEF Pde
  <2>4. 0 * pde'.n = 0
    BY <2>3
  <2>5. Counted(pde, hist.seen)'
    BY <1>3, <1>6, <1>8, <2>2, <2>4 DEF Counted
  <2>6. pde'.dmaed <= hist'.seen * pde'.n
    BY <1>3, <1>6, <1>8, <2>4
  <2>7. hist'.seen <= hist'.updates /\ hist'.updates - hist'.seen <= MaxGap
    BY <1>6, <2>1
  <2> QED BY <1>6, <1>9, <2>2, <2>5, <2>6, <2>7 DEF Counting
<1>14. Served'
  BY <1>1, <1>3, <1>8 DEF Served
<1>15. Fitting'
  <2>1. hist.owner \in Chans
    <3>1. Held(p) # {}
      <4>1. Cardinality({}) = 0
        BY FS_EmptySet
      <4>2. NumWaves(p) \in Nat \ {0} /\ NumWaves(p) <= Cardinality(Held(p))
        BY <1>7, WavesCounted, SetupOk
      <4> QED BY <4>1, <4>2
    <3>2. PICK c \in Chans : p.chan[c].mdl
      BY <3>1 DEF Held
    <3>3. pde.chan[c].mdl
      BY <1>3, <3>2 DEF SameChans
    <3> QED BY <3>3 DEF DacInv, Transferred
  <2>2. ASSUME Dynamic(p) = {}, Waves(p, "static") = Static(p)
        PROVE  ~nl /\ ~sp
    <3>1. /\ Copied(SetupBuffer(p)) <= RingSamples
          /\ \A c \in Waves(p, "static") : p.chan[c].buf
      BY <1>3, <1>7, <2>2, CopyFits
    <3>2. ~(Copied(SetupBuffer(p)) > RingSamples)
      <4>1. Copied(SetupBuffer(p)) \in Int
        <5>1. /\ SetupBuffer(p) \in Pde /\ SetupBuffer(p).single \in Nat \ {0}
              /\ SetupBuffer(p).n \in Nat \ {0}
          BY <1>3, <1>7, <2>2, SetupBufferFacts, Sizes DEF Padded
        <5> DEFINE q == SetupBuffer(p)
        <5>2. Cardinality(DOMAIN Period(q)) \in Nat
          BY <5>1, PeriodType
        <5>3. q.single * q.n \in Nat \ {0}
          BY <5>1, ProductPos
        <5>4. RingSamples \div (q.single * q.n) \in Nat
          BY <5>3, Sizes, DivNat
        <5> HIDE DEF q
        <5>5. Copied(q) \in Nat
          BY <5>2, <5>4, ProductNat DEF Copied
        <5> QED BY <5>5 DEF q
      <4> QED BY <3>1, <4>1, Sizes
    <3> QED BY <1>4, <3>1, <3>2
  <2>3. ASSUME pde'.dynamic \/ AnalogQuiet(pde') PROVE Fits(hist')
    <3>1. CASE pde'.dynamic
      BY <1>4, <1>6, <3>1 DEF Fits
    <3>2. CASE ~pde'.dynamic
      <4>1. AnalogQuiet(p) /\ Dynamic(p) = {}
        BY <1>8, <2>3, <3>2 DEF AnalogQuiet, SameChans
      <4>2. ~nl /\ ~sp
        BY <1>3, <1>7, <2>2, <4>1, OnlyDigitalWaves
      <4> QED BY <1>6, <4>2 DEF Fits
    <3> QED BY <3>1, <3>2
  <2>4. ASSUME ~OddOne(pde'), pde'.chan[hist'.owner].mdl, ~pde'.dynamic
        PROVE  Fits(hist') /\ \A c \in pde'.enabled : pde'.chan[c].size = pde'.single
    <3>1. ~OddOne(p) /\ Dynamic(p) = {}
      BY <1>8, <2>4 DEF OddOne, SameChans
    <3>2. /\ Chans \ Waves(p, "voltage") = Held(p)
          /\ Waves(p, "static") = Static(p) /\ Static(p) = Held(p)
      BY <1>3, <3>1, NoOddOne
    <3>3. Fits(hist')
      BY <1>6, <2>2, <3>1, <3>2 DEF Fits
    <3>4. NumWaves(p) = Cardinality(Held(p))
      BY <3>1, <3>2, WavesCounted
    <3>5. hist.owner \in Held(p) /\ p.chan[hist.owner].size = p.single
      <4>1. p.chan[hist.owner].mdl
        BY <1>6, <1>8, <2>1, <2>4 DEF SameChans
      <4>2. pde.chan[hist.owner].mdl /\ p.chan[hist.owner].size = pde.chan[hist.owner].size
            /\ p.single = pde.single
        BY <1>3, <2>1, <4>1 DEF SameChans, SameAsked
      <4> QED BY <2>1, <4>1, <4>2 DEF Held, DacInv, Transferred
    <3>6. ASSUME NEW c \in pde'.enabled PROVE pde'.chan[c].size = pde'.single
      <4>1. c \in Held(p)
        BY <1>8, <3>2, <3>6
      <4>2. p.chan[c].size = p.chan[hist.owner].size
        BY <1>3, <1>7, <3>4, <3>5, <4>1, OneLength
      <4>3. c \in Chans
        BY <4>1 DEF Held
      <4>4. pde'.chan[c].size = p.chan[c].size /\ pde'.single = p.single
        BY <1>8, <4>3 DEF SameChans, SameAsked
      <4> QED BY <3>5, <4>2, <4>4
    <3> QED BY <3>3, <3>6
  <2>5. hist'.owner \in Chans
    BY <1>6, <2>1
  <2> QED BY <2>3, <2>4, <2>5 DEF Fitting
<1>16. \A c \in Chans : pde'.chan[c].mode = pde.chan[c].mode
  BY <1>3, <1>8 DEF SameChans
<1>17. call' # "none"
  BY <1>1
<1> QED BY <1>6, <1>10, <1>11, <1>12, <1>13, <1>14, <1>15, <1>16, <1>17 DEF DacInv

LEMMA ArmActiveStep ==
  ASSUME DacInv, DacArmActive
  PROVE  DacInv' /\ pde'.chan = pde.chan /\ pde'.dma = pde.dma /\ hist'.overflow = hist.overflow
<1> DEFINE x == IF pde.die \/ pde.running THEN TRUE ELSE FALSE
<1>1. /\ pde \in Pde /\ hist \in History /\ board' = board /\ call = "armed" /\ call' = "wait"
      /\ hist' = [hist EXCEPT !.null = FALSE, !.spill = FALSE]
      /\ pde' = [pde EXCEPT !.active = TRUE, !.error = "None", !.die = x]
  <2>1. (pde.die \/ pde.running) = x
    OBVIOUS
  <2>2. pde' = [pde EXCEPT !.active = TRUE, !.error = "None", !.die = (pde.die \/ pde.running)]
    BY DEF DacArmActive
  <2> HIDE DEF x
  <2> QED BY <2>1, <2>2 DEF DacInv, DacTypes, DacArmActive
<1>2. x \in BOOLEAN
  OBVIOUS
<1> HIDE DEF x
<1>3. pde' \in Pde
  BY <1>1, <1>2 DEF Pde, Errors
<1>4. /\ pde'.active /\ pde'.error = "None" /\ pde'.chan = pde.chan /\ pde'.dma = pde.dma
      /\ pde'.n = pde.n /\ pde'.count = pde.count /\ pde'.old = pde.old
      /\ pde'.dmaed = pde.dmaed /\ pde'.pad = pde.pad /\ pde'.ring = pde.ring
      /\ pde'.dynamic = pde.dynamic /\ pde'.single = pde.single
  BY <1>1 DEF Pde
<1>5. hist' \in History /\ hist'.seen = hist.seen /\ hist'.updates = hist.updates
      /\ hist'.overtook = hist.overtook /\ hist'.owner = hist.owner
      /\ hist'.overflow = hist.overflow
  BY <1>1 DEF History
<1>6. DacTypes'
  BY <1>1, <1>3, <1>5 DEF DacInv, DacTypes
<1>7. Transferred'
  <2>1. NoNewTransfer(pde, pde')
    BY <1>4 DEF NoNewTransfer, DacInv, Transferred, Owned
  <2> QED BY <1>5, <2>1, StillTransferred DEF DacInv
<1>8. Fetching'
  BY <1>1, <1>4 DEF DacInv, Fetching, Padded, Feeds
<1>9. Counting'
  BY <1>1, <1>4, <1>5 DEF DacInv, Counting, Counted
<1>10. Served'
  BY <1>1, <1>4, <1>5 DEF DacInv, Served
<1>11. Fitting'
  BY <1>1 DEF Fitting
<1> QED BY <1>4, <1>5, <1>6, <1>7, <1>8, <1>9, <1>10, <1>11 DEF DacInv

(* kickstartDacEvent, whether the callback of before has gone or not.      *)
LEMMA KickStep ==
  ASSUME DacInv, DacArmDone \/ DacArmTimeout
  PROVE  DacInv' /\ pde'.chan = pde.chan /\ pde'.dma = pde.dma /\ hist'.overflow = hist.overflow
         /\ pde'.active = pde.active
<1>1. pde \in Pde /\ hist \in History /\ board' = board /\ call = "wait" /\ call' = "none"
  BY DEF DacInv, DacTypes, DacArmDone, DacArmTimeout
<1>2. /\ pde' \in Pde
      /\ pde'.active = pde.active /\ pde'.error = pde.error /\ pde'.chan = pde.chan
      /\ pde'.dma = pde.dma /\ pde'.pacer = pde.pacer
      /\ pde'.n = pde.n /\ pde'.count = pde.count /\ pde'.old = pde.old
      /\ pde'.dmaed = pde.dmaed /\ pde'.pad = pde.pad /\ pde'.ring = pde.ring
      /\ pde'.dynamic = pde.dynamic /\ pde'.single = pde.single
  <2>1. CASE DacArmDone
    <3>1. pde' = [pde EXCEPT !.running = TRUE, !.die = FALSE, !.timer = TRUE]
      BY <2>1 DEF DacArmDone, Kick
    <3>2. pde' \in Pde
      BY <1>1, <3>1 DEF Pde
    <3>3. /\ pde'.active = pde.active /\ pde'.error = pde.error /\ pde'.chan = pde.chan
          /\ pde'.dma = pde.dma /\ pde'.pacer = pde.pacer
          /\ pde'.n = pde.n /\ pde'.count = pde.count /\ pde'.old = pde.old
          /\ pde'.dmaed = pde.dmaed /\ pde'.pad = pde.pad /\ pde'.ring = pde.ring
          /\ pde'.dynamic = pde.dynamic /\ pde'.single = pde.single
      BY <1>1, <3>1 DEF Pde
    <3> QED BY <3>2, <3>3
  <2>2. CASE DacArmTimeout
    <3>1. pde' = [pde EXCEPT !.die = TRUE]
      BY <2>2 DEF DacArmTimeout
    <3>2. pde' \in Pde
      BY <1>1, <3>1 DEF Pde
    <3>3. /\ pde'.active = pde.active /\ pde'.error = pde.error /\ pde'.chan = pde.chan
          /\ pde'.dma = pde.dma /\ pde'.pacer = pde.pacer
          /\ pde'.n = pde.n /\ pde'.count = pde.count /\ pde'.old = pde.old
          /\ pde'.dmaed = pde.dmaed /\ pde'.pad = pde.pad /\ pde'.ring = pde.ring
          /\ pde'.dynamic = pde.dynamic /\ pde'.single = pde.single
      BY <1>1, <3>1 DEF Pde
    <3> QED BY <3>2, <3>3
  <2> QED BY <2>1, <2>2
<1>3. /\ hist' \in History /\ hist'.seen = hist.seen /\ hist'.updates = hist.updates
      /\ hist'.overtook = hist.overtook /\ hist'.owner = hist.owner
      /\ hist'.overflow = hist.overflow
      /\ hist'.late \/ (pde'.timer /\ ~pde'.die)
  <2>1. CASE DacArmDone
    <3>1. hist' = hist /\ pde' = [pde EXCEPT !.running = TRUE, !.die = FALSE, !.timer = TRUE]
      BY <2>1 DEF DacArmDone, Kick
    <3> QED BY <1>1, <3>1 DEF Pde
  <2>2. CASE DacArmTimeout
    <3>1. hist' = [hist EXCEPT !.late = TRUE]
      BY <2>2 DEF DacArmTimeout
    <3> QED BY <1>1, <3>1 DEF History
  <2> QED BY <2>1, <2>2
<1>4. DacTypes'
  BY <1>1, <1>2, <1>3 DEF DacInv, DacTypes
<1>5. Transferred'
  <2>1. NoNewTransfer(pde, pde')
    BY <1>2 DEF NoNewTransfer, DacInv, Transferred, Owned
  <2> QED BY <1>3, <2>1, StillTransferred DEF DacInv
<1>6. Fetching'
  BY <1>1, <1>2 DEF DacInv, Fetching, Padded, Feeds
<1>7. Counting'
  BY <1>1, <1>2, <1>3 DEF DacInv, Counting, Counted
<1>8. Served'
  BY <1>1, <1>2, <1>3 DEF DacInv, Served, Watched, Quieted
<1>9. Fitting'
  BY <1>1 DEF Fitting
<1> QED BY <1>2, <1>3, <1>4, <1>5, <1>6, <1>7, <1>8, <1>9 DEF DacInv
-----------------------------------------------------------------------------
(* The callback and the board.                                             *)
EventKept(p, q) ==
  /\ \A c \in Chans : q.chan[c].mode = p.chan[c].mode
  /\ q.active => p.active
  /\ q.dma => p.dma
  /\ \A c \in Chans : p.chan[c].room = 0 => q.chan[c].room = 0

LEMMA PdeTimer ==
  ASSUME NEW p \in Pde, NEW x \in BOOLEAN, NEW y \in BOOLEAN
  PROVE  [p EXCEPT !.running = x, !.timer = y] \in Pde
<1>1. [p EXCEPT !.running = x] \in Pde
  BY DEF Pde
<1> QED BY <1>1 DEF Pde

LEMMA EventFacts ==
  ASSUME DacInv, NEW q, q = EventL(pde)
  PROVE  /\ q \in Pde
         /\ pde.die \/ ~pde.dma =>
              /\ SameDma(pde, q) /\ SameAsked(pde, q) /\ q.chan = pde.chan
              /\ q.error = pde.error /\ q.pacer = pde.pacer /\ q.enabled = pde.enabled
              /\ q.die = pde.die
         /\ ~(pde.die \/ ~pde.dma) =>
              /\ q.dmaed <= hist.updates * q.n
              /\ \/ /\ Counted(q, hist.updates) /\ Padded(q) /\ SameAsked(pde, q)
                    /\ SameRun(pde, q) /\ SameChans(pde, q)
                    /\ \A c \in Chans : q.chan[c].room = pde.chan[c].room
                    /\ q.dynamic = pde.dynamic /\ q.error = pde.error /\ q.n = pde.n
                    /\ q.ring = pde.ring /\ q.timer /\ ~q.die
                 \/ /\ Quieted(q) /\ q.enabled = {} /\ ~q.dynamic /\ NoNewTransfer(pde, q)
                    /\ \A c \in Chans : /\ q.chan[c].mode = pde.chan[c].mode
                                        /\ q.chan[c].room = 0
                                        /\ c = Digital => q.chan[c].mdl = pde.chan[c].mdl
                                        /\ c # Digital => ~q.chan[c].mdl
<1> DEFINE r == IF pde.die \/ ~pde.dma THEN pde ELSE CheckEventsAndMoveData(pde)
           again == IF ~pde.die /\ r.dma THEN TRUE ELSE FALSE
<1>1. pde \in Pde /\ board \in Fed /\ hist \in History /\ Owned(pde)
  BY DEF DacInv, DacTypes, Transferred
<1>2. q = [r EXCEPT !.running = again, !.timer = again]
  <2>1. (~pde.die /\ r.dma) = again
    OBVIOUS
  <2>2. q = [r EXCEPT !.running = (~pde.die /\ r.dma), !.timer = (~pde.die /\ r.dma)]
    BY DEF EventL
  <2> HIDE DEF r, again
  <2> QED BY <2>1, <2>2
<1>3. again \in BOOLEAN /\ (again <=> ~pde.die /\ r.dma)
  OBVIOUS
<1>4. CASE pde.die \/ ~pde.dma
  <2>1. r = pde
    BY <1>4
  <2> HIDE DEF r, again
  <2>2. q \in Pde
    BY <1>1, <1>2, <1>3, <2>1, PdeTimer
  <2>3. /\ SameDma(pde, q) /\ SameAsked(pde, q) /\ q.chan = pde.chan
        /\ q.error = pde.error /\ q.pacer = pde.pacer /\ q.enabled = pde.enabled
        /\ q.die = pde.die
    BY <1>1, <1>2, <2>1 DEF Pde, SameDma, SameAsked, SameCount
  <2> QED BY <1>4, <2>2, <2>3
<1>5. CASE ~(pde.die \/ ~pde.dma)
  <2> DEFINE u == hist.updates
             s == hist.seen
  <2>1. r = CheckEventsAndMoveData(pde)
    BY <1>5
  <2> HIDE DEF r, again
  <2>2. /\ Padded(pde) /\ s \in Nat /\ u \in Nat /\ s <= u /\ u - s < Word
        /\ Counted(pde, s) /\ board.count = u % Word
    <3>1. s \in Nat /\ u \in Nat
      BY <1>1 DEF History
    <3>2. /\ Padded(pde) /\ s <= u /\ u - s <= MaxGap
          /\ Counted(pde, s) /\ board.count = u % Word
      BY <1>5 DEF DacInv, Fetching, Counting
    <3>3. MaxGap < Word /\ MaxGap \in Nat /\ Word \in Nat
      BY DacAssumption
    <3> QED BY <3>1, <3>2, <3>3
  <2> HIDE DEF u, s
  <2>3. /\ r \in Pde
        /\ r.dmaed <= u * r.n
        /\ GoesOn(pde, r, u) \/ Ended(pde, r)
    BY <1>1, <2>1, <2>2, CheckFacts
  <2>4. q \in Pde
    BY <1>2, <1>3, <2>3, PdeTimer
  <2>5. /\ SameDma(r, q) /\ SameAsked(r, q) /\ q.chan = r.chan
        /\ q.error = r.error /\ q.pacer = r.pacer /\ q.enabled = r.enabled
        /\ q.die = r.die /\ q.timer = again
    BY <1>2, <2>3 DEF Pde, SameDma, SameAsked, SameCount
  <2>6. q.dmaed <= u * q.n
    BY <2>3, <2>5 DEF SameDma, SameCount
  <2>7. CASE GoesOn(pde, r, u)
    <3>1. /\ Counted(q, u) /\ Padded(q)
      BY <2>5, <2>7 DEF GoesOn, SameDma, SameCount, Counted, Padded
    <3>2. SameAsked(pde, q) /\ SameRun(pde, q) /\ SameChans(pde, q)
          /\ \A c \in Chans : q.chan[c].room = pde.chan[c].room
      BY <2>5, <2>7 DEF GoesOn, SameDma, SameAsked, SameRun, SameChans
    <3>3. /\ q.dynamic = pde.dynamic /\ q.error = pde.error /\ q.n = pde.n
          /\ q.ring = pde.ring /\ q.die = pde.die /\ r.dma
      BY <1>5, <2>5, <2>7 DEF GoesOn, SameDma, SameCount, SameTimer, SameRun
    <3>4. q.timer /\ ~q.die
      BY <1>3, <1>5, <2>5, <3>3
    <3> QED BY <1>5, <2>4, <2>6, <3>1, <3>2, <3>3, <3>4 DEF u
  <2>8. CASE Ended(pde, r)
    <3>1. /\ NoNewTransfer(pde, r) /\ \A c \in Chans : c # Digital => ~r.chan[c].mdl
      BY <1>1, <2>8, EndedTransfers
    <3>2. NoNewTransfer(pde, q)
      BY <2>5, <3>1 DEF NoNewTransfer, SameAsked
    <3>3. Quieted(q) /\ q.enabled = {} /\ ~q.dynamic
      BY <2>5, <2>8 DEF Ended, Quieted, SameDma
    <3>4. \A c \in Chans : /\ q.chan[c].mode = pde.chan[c].mode
                           /\ q.chan[c].room = 0
                           /\ c = Digital => q.chan[c].mdl = pde.chan[c].mdl
                           /\ c # Digital => ~q.chan[c].mdl
      BY <2>5, <2>8, <3>1 DEF Ended
    <3> QED BY <1>5, <2>4, <2>6, <3>2, <3>3, <3>4 DEF u
  <2> QED BY <2>3, <2>7, <2>8
<1> QED BY <1>4, <1>5

LEMMA EventStep ==
  ASSUME DacInv, DacEventL
  PROVE  DacInv' /\ EventKept(pde, pde') /\ hist'.overflow = hist.overflow
<1> DEFINE sn == IF pde.die \/ ~pde.dma THEN hist.seen ELSE hist.updates
           ot == IF hist.overtook \/ (call = "armed" /\ ~pde'.dma) THEN TRUE ELSE FALSE
           h == [hist EXCEPT !.seen = sn, !.overtook = ot]
<1>1. /\ pde \in Pde /\ board \in Fed /\ hist \in History /\ call \in {"none", "armed", "wait"}
      /\ pde' = EventL(pde) /\ call' = call /\ BoardRests
  BY DEF DacInv, DacTypes, DacEventL
<1>2. hist' = Rested(h)
  <2>1. (hist.overtook \/ (call = "armed" /\ ~pde'.dma)) = ot
    OBVIOUS
  <2>2. hist' = Rested([hist EXCEPT !.seen = sn,
                          !.overtook = (hist.overtook \/ (call = "armed" /\ ~pde'.dma))])
    BY DEF DacEventL
  <2> HIDE DEF sn, ot
  <2> QED BY <2>1, <2>2
<1>3. ot \in BOOLEAN /\ (ot <=> hist.overtook \/ (call = "armed" /\ ~pde'.dma))
  OBVIOUS
<1>4. sn \in Nat
  BY <1>1 DEF History
<1> HIDE DEF ot, sn
<1>5. h \in History /\ h.seen = sn /\ h.overtook = ot /\ h.updates = hist.updates
      /\ h.stopped = hist.stopped /\ h.late = hist.late /\ h.owner = hist.owner
      /\ h.overflow = hist.overflow /\ h.spill = hist.spill /\ h.null = hist.null
  BY <1>1, <1>3, <1>4 DEF History
<1> HIDE DEF h
<1>6. /\ hist' \in History /\ hist'.seen = sn /\ hist'.overtook = ot
      /\ hist'.stopped = hist.stopped /\ hist'.late = hist.late /\ hist'.owner = hist.owner
      /\ hist'.overflow = hist.overflow /\ hist'.spill = hist.spill /\ hist'.null = hist.null
      /\ pde'.dma => hist'.updates = hist.updates
  BY <1>2, <1>5, RestedFacts DEF SameNoted
<1>7. /\ board' \in Fed /\ Len(board'.fifo) <= FifoDepth
      /\ pde'.dma => board' = board
  BY <1>1, RestingBoard DEF DacInv, Fetching
<1>8. pde' \in Pde
  BY <1>1, EventFacts
<1>9. DacTypes'
  BY <1>1, <1>6, <1>7, <1>8 DEF DacTypes
<1>10. CASE pde.die \/ ~pde.dma
  <2>1. /\ SameDma(pde, pde') /\ SameAsked(pde, pde') /\ pde'.chan = pde.chan
        /\ pde'.error = pde.error /\ pde'.pacer = pde.pacer /\ pde'.enabled = pde.enabled
        /\ pde'.die = pde.die
    BY <1>1, <1>10, EventFacts
  <2>2. /\ pde'.n = pde.n /\ pde'.count = pde.count /\ pde'.old = pde.old
        /\ pde'.dmaed = pde.dmaed /\ pde'.active = pde.active /\ pde'.dma = pde.dma
        /\ pde'.pad = pde.pad /\ pde'.ring = pde.ring /\ pde'.dynamic = pde.dynamic
        /\ pde'.single = pde.single
    BY <2>1 DEF SameDma, SameCount, SameAsked
  <2>3. sn = hist.seen
    BY <1>10 DEF sn
  <2>4. Transferred'
    <3>1. NoNewTransfer(pde, pde')
      BY <2>1, <2>2 DEF NoNewTransfer, DacInv, Transferred, Owned
    <3> QED BY <1>6, <3>1, StillTransferred DEF DacInv
  <2>5. Fetching'
    BY <1>7, <2>2 DEF DacInv, Fetching, Padded, Feeds
  <2>6. Counting'
    BY <1>6, <1>7, <2>2, <2>3 DEF DacInv, Counting, Counted
  <2>7. Served'
    <3>1. call = "armed" => ~pde'.active
      BY <2>2 DEF DacInv, Served
    <3>2. call = "armed" /\ ~hist'.overtook => pde'.dma
      BY <1>3, <1>6
    <3>3. call # "armed" /\ pde'.active /\ ~hist'.overtook => pde'.dma
      BY <1>3, <1>6, <2>2 DEF DacInv, Served
    <3>4. call = "none" /\ pde'.active /\ Watched' => FALSE
      BY <1>3, <1>6, <1>10, <2>2 DEF DacInv, Served, Watched
    <3>5. call # "armed" /\ pde'.error # "None" => Quieted(pde')
      BY <2>1, <2>2 DEF DacInv, Served, Quieted
    <3> QED BY <1>1, <3>1, <3>2, <3>3, <3>4, <3>5 DEF Served
  <2>8. Fitting'
    BY <1>1, <1>6, <2>1, <2>2 DEF DacInv, Fitting, Fits, OddOne, AnalogQuiet
  <2>9. EventKept(pde, pde')
    BY <2>1, <2>2 DEF EventKept
  <2> QED BY <1>6, <1>9, <2>4, <2>5, <2>6, <2>7, <2>8, <2>9 DEF DacInv
<1>11. CASE /\ ~(pde.die \/ ~pde.dma)
            /\ Counted(pde', hist.updates) /\ Padded(pde') /\ SameAsked(pde, pde')
            /\ SameRun(pde, pde') /\ SameChans(pde, pde')
            /\ \A c \in Chans : pde'.chan[c].room = pde.chan[c].room
            /\ pde'.dynamic = pde.dynamic /\ pde'.error = pde.error /\ pde'.n = pde.n
            /\ pde'.ring = pde.ring /\ pde'.timer /\ ~pde'.die
  <2>1. pde'.dmaed <= hist.updates * pde'.n
    BY <1>1, <1>11, EventFacts
  <2>2. pde'.dma /\ board' = board /\ hist'.seen = hist.updates /\ hist'.updates = hist.updates
    BY <1>6, <1>7, <1>11 DEF SameRun, sn
  <2>3. /\ pde'.active = pde.active /\ pde'.dma = pde.dma /\ pde'.pacer = pde.pacer
        /\ pde'.enabled = pde.enabled /\ pde'.single = pde.single
    BY <1>11 DEF SameRun, SameAsked
  <2>4. \A c \in Chans :
          /\ pde'.chan[c].mode = pde.chan[c].mode /\ pde'.chan[c].mdl = pde.chan[c].mdl
          /\ pde'.chan[c].buf = pde.chan[c].buf /\ pde'.chan[c].size = pde.chan[c].size
          /\ pde'.chan[c].room = pde.chan[c].room
    BY <1>11 DEF SameChans
  <2>5. Transferred'
    <3>1. NoNewTransfer(pde, pde')
      BY <2>3, <2>4 DEF NoNewTransfer, DacInv, Transferred, Owned
    <3> QED BY <1>6, <3>1, StillTransferred DEF DacInv
  <2>6. Fetching'
    <3>1. Padded(pde) /\ Feeds(pde, board) /\ Len(board.fifo) = FifoDepth
      BY <1>11 DEF DacInv, Fetching
    <3>2. Len(pde'.pad) = Len(pde.pad)
      BY <1>11, <3>1 DEF Padded
    <3>3. Feeds(pde, board)'
      BY <1>11, <2>2, <3>1, <3>2 DEF Feeds
    <3> QED BY <1>7, <1>11, <2>2, <3>1, <3>3 DEF Fetching
  <2>7. Counting'
    <3>1. MaxGap \in Nat /\ hist.updates \in Nat
      BY <1>1, DacAssumption DEF History
    <3>2. hist'.seen <= hist'.updates /\ hist'.updates - hist'.seen <= MaxGap
      BY <2>2, <3>1
    <3>3. board'.count = hist'.updates % Word
      BY <1>11, <2>2 DEF DacInv, Counting
    <3> QED BY <1>11, <2>1, <2>2, <3>2, <3>3 DEF Counting
  <2>8. Served'
    BY <1>1, <1>3, <1>6, <1>11, <2>2, <2>3 DEF DacInv, Served, Quieted
  <2>9. Fitting'
    <3>1. SUFFICES ASSUME call = "armed"
                   PROVE  /\ hist'.owner \in Chans
                          /\ pde'.dynamic \/ AnalogQuiet(pde') => Fits(hist')
                          /\ \/ OddOne(pde')
                             \/ ~pde'.chan[hist'.owner].mdl
                             \/ pde'.dynamic
                             \/ Fits(hist') /\ \A c \in pde'.enabled :
                                                 pde'.chan[c].size = pde'.single
      BY <1>1 DEF Fitting
    <3>2. /\ hist.owner \in Chans
          /\ pde.dynamic \/ AnalogQuiet(pde) => Fits(hist)
          /\ \/ OddOne(pde)
             \/ ~pde.chan[hist.owner].mdl
             \/ pde.dynamic
             \/ Fits(hist) /\ \A c \in pde.enabled : pde.chan[c].size = pde.single
      BY <3>1 DEF DacInv, Fitting
    <3>3. hist'.owner = hist.owner /\ (Fits(hist') <=> Fits(hist)) /\ pde'.dynamic = pde.dynamic
      BY <1>6, <1>11 DEF Fits
    <3>4. (AnalogQuiet(pde') <=> AnalogQuiet(pde)) /\ (OddOne(pde') <=> OddOne(pde))
      BY <2>4 DEF AnalogQuiet, OddOne
    <3>5. pde.enabled \subseteq Chans
      BY <1>1 DEF Pde
    <3>6. (\A c \in pde.enabled : pde.chan[c].size = pde.single)
            => \A c \in pde'.enabled : pde'.chan[c].size = pde'.single
      BY <2>3, <2>4, <3>5
    <3>7. ~pde.chan[hist.owner].mdl => ~pde'.chan[hist'.owner].mdl
      BY <2>4, <3>2, <3>3
    <3> QED BY <3>2, <3>3, <3>4, <3>6, <3>7
  <2>10. EventKept(pde, pde')
    BY <2>3, <2>4 DEF EventKept
  <2> QED BY <1>6, <1>9, <2>5, <2>6, <2>7, <2>8, <2>9, <2>10 DEF DacInv
<1>12. CASE /\ ~(pde.die \/ ~pde.dma)
            /\ Quieted(pde') /\ pde'.enabled = {} /\ ~pde'.dynamic
            /\ NoNewTransfer(pde, pde')
            /\ \A c \in Chans : /\ pde'.chan[c].mode = pde.chan[c].mode
                                /\ pde'.chan[c].room = 0
                                /\ c = Digital => pde'.chan[c].mdl = pde.chan[c].mdl
                                /\ c # Digital => ~pde'.chan[c].mdl
  <2>1. pde'.dmaed <= hist.updates * pde'.n
    BY <1>1, <1>12, EventFacts
  <2>2. ~pde'.active /\ ~pde'.dma /\ ~pde'.pacer
    BY <1>12 DEF Quieted
  <2>3. hist'.seen = hist.updates
    BY <1>6, <1>12 DEF sn
  <2>4. Transferred'
    BY <1>6, <1>12, StillTransferred DEF DacInv
  <2>5. Fetching' /\ Counting'
    BY <1>7, <2>1, <2>2, <2>3 DEF Fetching, Counting
  <2>6. Served'
    BY <1>1, <1>3, <1>6, <2>2 DEF Served, Quieted
  <2>7. Fitting'
    <3>1. SUFFICES ASSUME call = "armed"
                   PROVE  /\ hist'.owner \in Chans
                          /\ AnalogQuiet(pde') => Fits(hist')
                          /\ \/ OddOne(pde')
                             \/ Fits(hist') /\ \A c \in pde'.enabled :
                                                 pde'.chan[c].size = pde'.single
      BY <1>1, <1>12 DEF Fitting
    <3>2. hist'.owner \in Chans
      BY <1>6, <3>1 DEF DacInv, Fitting
    <3>3. AnalogQuiet(pde') => Fits(hist')
      BY <1>6, <1>12, <3>1 DEF DacInv, Fitting, AnalogQuiet, Fits
    <3>4. ~AnalogQuiet(pde') => OddOne(pde')
      <4>1. SUFFICES ASSUME NEW c \in Chans, c # Digital, pde'.chan[c].mode # "voltage"
                     PROVE  pde'.chan[c].mdl # (pde'.chan[c].mode # "voltage")
        BY DEF AnalogQuiet, OddOne
      <4>2. ~pde'.chan[c].mdl
        BY <1>12, <4>1
      <4>3. (pde'.chan[c].mode # "voltage") = TRUE
        BY <4>1
      <4> QED BY <4>2, <4>3
    <3> QED BY <1>12, <3>2, <3>3, <3>4
  <2>8. EventKept(pde, pde')
    BY <1>12, <2>2 DEF EventKept
  <2> QED BY <1>6, <1>9, <2>4, <2>5, <2>6, <2>7, <2>8 DEF DacInv
<1> QED
  <2>1. ~(pde.die \/ ~pde.dma) => \/ <1>11!1 \/ <1>12!1
    BY <1>1, EventFacts
  <2> QED BY <1>10, <1>11, <1>12, <2>1

LEMMA FaultStep ==
  ASSUME DacInv, BoardFault
  PROVE  DacInv' /\ pde' = pde /\ call' = call /\ hist' = hist
<1>1. /\ board \in Fed /\ board' = [board EXCEPT !.fault = TRUE]
      /\ pde' = pde /\ call' = call /\ hist' = hist
  BY DEF BoardFault, DacInv, DacTypes
<1>2. /\ board' \in Fed /\ board'.at = board.at /\ board'.end = board.end
      /\ board'.toPad = board.toPad /\ board'.inPad = board.inPad
      /\ board'.fifo = board.fifo /\ board'.count = board.count
  BY <1>1 DEF Fed
<1>3. DacTypes' /\ Transferred' /\ Served' /\ Fitting'
  BY <1>1, <1>2 DEF DacInv, DacTypes, Transferred, Served, Watched, Fitting
<1>4. Fetching'
  BY <1>1, <1>2 DEF DacInv, Fetching, Feeds
<1>5. Counting'
  BY <1>1, <1>2 DEF DacInv, Counting
<1> QED BY <1>1, <1>3, <1>4, <1>5 DEF DacInv

LEMMA UpdateStep ==
  ASSUME DacInv, BoardUpdate
  PROVE  DacInv' /\ pde' = pde /\ call' = call /\ hist'.overflow = hist.overflow
<1> DEFINE e == InOrder(pde.enabled)
           x == IF hist.bad \/ \E i \in 1..Len(e) : board.fifo[i] # Wanted(e[i], hist.updates)
                THEN TRUE ELSE FALSE
           k == Len(e)
           ct == (board.count + 1) % Word
           ff == SubSeq(board.fifo, k + 1, Len(board.fifo))
           m == [board EXCEPT !.count = ct, !.fifo = ff]
<1>1. /\ pde \in Pde /\ board \in Fed /\ hist \in History
      /\ pde' = pde /\ call' = call /\ pde.dma
      /\ hist.updates - hist.seen < MaxGap
  BY DEF BoardUpdate, DacInv, DacTypes
<1>2. hist' = [hist EXCEPT !.updates = hist.updates + 1, !.bad = x]
  <2>1. (hist.bad \/ \E i \in 1..Len(e) : board.fifo[i] # Wanted(e[i], hist.updates)) = x
    OBVIOUS
  <2>2. hist' = [hist EXCEPT !.updates = hist.updates + 1,
                   !.bad = (hist.bad \/ \E i \in 1..Len(e) :
                                          board.fifo[i] # Wanted(e[i], hist.updates))]
    BY DEF BoardUpdate
  <2> HIDE DEF x, e
  <2> QED BY <2>1, <2>2
<1>3. board' = Refill(pde, m)
  BY DEF BoardUpdate
<1>4. x \in BOOLEAN
  OBVIOUS
<1>5. Padded(pde) /\ Feeds(pde, board) /\ Len(board.fifo) = FifoDepth /\ FifoDepth \in Nat
  BY <1>1, DacAssumption DEF DacInv, Fetching
<1>6. k \in 0..FifoDepth
  <2>1. pde.enabled \in SUBSET Chans /\ Chans \in SUBSET (0..Digital)
    BY <1>1, DacAssumption DEF Pde
  <2>2. k = Cardinality(pde.enabled) /\ Cardinality(pde.enabled) \in Nat
    <3>1. pde.enabled \in SUBSET (0..Digital)
      BY <2>1
    <3> QED BY <3>1, Ordered, ChannelSet
  <2>3. Cardinality(pde.enabled) <= Cardinality(Chans) /\ Cardinality(Chans) \in Nat
    BY <2>1, ChannelSet, FS_Subset
  <2>4. Cardinality(Chans) <= FifoDepth
    BY DacAssumption
  <2> HIDE DEF k
  <2> QED BY <1>5, <2>2, <2>3, <2>4
<1> HIDE DEF x, k
<1>7. ff \in Seq(Samples) /\ Len(ff) <= FifoDepth
  <2> DEFINE f == board.fifo
             a == k + 1
  <2>1. f \in Seq(Samples) /\ Len(f) = FifoDepth
    BY <1>1, <1>5 DEF Fed
  <2>2. a \in 1..(Len(f) + 1) /\ Len(f) \in a - 1..Len(f)
    BY <1>5, <1>6, <2>1
  <2>3. SubSeq(f, a, Len(f)) \in Seq(Samples)
        /\ Len(SubSeq(f, a, Len(f))) = IF a <= Len(f) THEN Len(f) - a + 1 ELSE 0
    <3> HIDE DEF f, a
    <3> QED BY <2>1, <2>2, SubSeqProperties
  <2>4. (IF a <= Len(f) THEN Len(f) - a + 1 ELSE 0) <= FifoDepth
    BY <1>5, <1>6, <2>1
  <2> QED BY <2>3, <2>4
<1>8. Word \in Nat \ {0} /\ MaxGap \in Nat /\ MaxGap < Word /\ hist.updates \in Nat
      /\ hist.seen \in Nat
  BY <1>1, DacAssumption DEF History
<1>9. ct \in Nat /\ ct = (hist.updates + 1) % Word
  <2> DEFINE b == board.count
             u == hist.updates
  <2>1. b = u % Word
    BY <1>1 DEF DacInv, Counting
  <2>2. b \in 0..(Word - 1) /\ u = Word * (u \div Word) + b /\ u \div Word \in Int
    <3>1. u \in Int /\ Word \in Nat \ {0} /\ b = u % Word
      BY <1>8, <2>1
    <3> HIDE DEF b, u
    <3> QED BY <3>1, ModRange
  <2>3. u \in Nat /\ ct = (b + 1) % Word
    BY <1>8
  <2> HIDE DEF b, u
  <2> DEFINE q == u \div Word
  <2>4. q \in Int /\ u = Word * q + b
    BY <2>2
  <2> HIDE DEF q
  <2>5. CASE b + 1 < Word
    <3>1. b + 1 = 0 * Word + (b + 1) /\ b + 1 \in 0..(Word - 1) /\ b + 1 \in Int
      BY <1>8, <2>2, <2>5
    <3>2. (b + 1) % Word = b + 1
      BY <1>8, <3>1, DivUnique
    <3>3. u + 1 = q * Word + (b + 1) /\ u + 1 \in Int
      BY <1>8, <2>2, <2>3, <2>4
    <3>4. (u + 1) % Word = b + 1
      BY <1>8, <2>4, <3>1, <3>3, DivUnique
    <3> QED BY <2>2, <2>3, <3>2, <3>4 DEF u
  <2>6. CASE ~(b + 1 < Word)
    <3>1. b + 1 = 1 * Word + 0 /\ 0 \in 0..(Word - 1) /\ b + 1 \in Int
      BY <1>8, <2>2, <2>6
    <3>2. (b + 1) % Word = 0
      BY <1>8, <3>1, DivUnique
    <3>3. u + 1 = (q + 1) * Word + 0 /\ u + 1 \in Int /\ q + 1 \in Int
      <4>1. q \in Int /\ Word \in Int /\ u \in Int /\ b \in Int
        BY <1>8, <2>2, <2>3, <2>4
      <4>2. (q + 1) * Word = Word * q + Word
        BY <4>1
      <4>3. u + 1 = Word * q + Word
        BY <2>4, <3>1, <4>1
      <4> QED BY <4>1, <4>2, <4>3
    <3>4. (u + 1) % Word = 0
      BY <1>8, <3>1, <3>3, DivUnique
    <3> QED BY <2>3, <3>2, <3>4 DEF u
  <2> QED BY <2>5, <2>6
<1> HIDE DEF ct, ff
<1>10. /\ m \in Fed /\ m.at = board.at /\ m.end = board.end /\ m.toPad = board.toPad
       /\ m.inPad = board.inPad /\ m.fifo = ff /\ m.count = ct
  BY <1>1, <1>7, <1>9 DEF Fed
<1> HIDE DEF m
<1>11. Feeds(pde, m)
  BY <1>5, <1>10 DEF Feeds
<1>12. /\ board' \in Fed /\ Feeds(pde, board') /\ Len(board'.fifo) = FifoDepth
       /\ board'.count = ct
  BY <1>1, <1>3, <1>5, <1>7, <1>10, <1>11, RefillFacts
<1>13. /\ hist' \in History /\ hist'.updates = hist.updates + 1 /\ hist'.seen = hist.seen
       /\ hist'.overflow = hist.overflow /\ hist'.spill = hist.spill
       /\ hist'.null = hist.null /\ hist'.owner = hist.owner
       /\ hist'.stopped = hist.stopped /\ hist'.late = hist.late
       /\ hist'.overtook = hist.overtook
  <2> DEFINE u == hist.updates + 1
  <2>1. u \in Nat
    BY <1>8
  <2>2. hist' = [hist EXCEPT !.updates = u, !.bad = x]
    BY <1>2
  <2> HIDE DEF u
  <2>3. /\ hist' \in History /\ hist'.updates = u /\ hist'.seen = hist.seen
        /\ hist'.overflow = hist.overflow /\ hist'.spill = hist.spill
        /\ hist'.null = hist.null /\ hist'.owner = hist.owner
        /\ hist'.stopped = hist.stopped /\ hist'.late = hist.late
        /\ hist'.overtook = hist.overtook
    BY <1>1, <1>4, <2>1, <2>2 DEF History
  <2> QED BY <2>3 DEF u
<1>14. DacTypes'
  BY <1>1, <1>12, <1>13 DEF DacInv, DacTypes
<1>15. Transferred' /\ Served' /\ Fitting'
  BY <1>1, <1>13 DEF DacInv, Transferred, Served, Watched, Fitting, Fits
<1>16. Fetching'
  BY <1>1, <1>5, <1>12 DEF DacInv, Fetching
<1>17. Counting'
  <2>1. hist'.seen <= hist'.updates /\ hist'.updates - hist'.seen <= MaxGap
    <3>1. hist.seen <= hist.updates
      BY <1>1 DEF DacInv, Counting
    <3> QED BY <1>1, <1>8, <1>13, <3>1
  <2>2. board'.count = hist'.updates % Word
    BY <1>9, <1>12, <1>13
  <2> QED BY <1>1, <1>13, <2>1, <2>2 DEF DacInv, Counting
<1> QED BY <1>1, <1>13, <1>14, <1>15, <1>16, <1>17 DEF DacInv

-----------------------------------------------------------------------------
(* The program that issues the ioctls itself.                              *)
LEMMA Asked ==
  ASSUME caller \in Callers
  PROVE  /\ Confs \subseteq Conf
         /\ Modes \subseteq Modes3
         /\ \A w \in Waveforms : w[1] \in Chans /\ w[2] \in Nat \ {0}
         /\ Used \subseteq Chans
<1>1. Confs \subseteq Conf /\ Lens \subseteq Nat \ {0}
  BY DacAssumption DEF Conf
<1>2. Modes \subseteq Modes3 /\ Waveforms \subseteq Chans \X Lens
  BY UsesAssumption DEF Modes, Waveforms, Modes3
<1>3. \A w \in Waveforms : w[1] \in Chans /\ w[2] \in Nat \ {0}
  BY <1>1, <1>2
<1> QED BY <1>1, <1>2, <1>3 DEF Used

LEMMA KeptStep ==
  ASSUME DacInv, UNCHANGED dacVars
  PROVE  DacInv'
<1>1. pde' = pde /\ board' = board /\ call' = call /\ hist' = hist
  BY DEF dacVars
<1>2. DacTypes' /\ Transferred' /\ Fetching'
  BY <1>1 DEF DacInv, DacTypes, Transferred, Fetching
<1>3. Counting' /\ Served' /\ Fitting'
  BY <1>1 DEF DacInv, Counting, Served, Watched, Fitting
<1> QED BY <1>2, <1>3 DEF DacInv

LEMMA SameConf ==
  ASSUME NEW p \in Pde
  PROVE  p.conf \in Conf /\ [p EXCEPT !.conf = p.conf] = p
BY DEF Pde

LEMMA Comparison ==
  ASSUME NEW a \in Nat, NEW b \in Nat
  PROVE  \E x \in BOOLEAN : x = (a < b) /\ (x <=> a < b)
<1>1. (a < b) \in BOOLEAN
  OBVIOUS
<1> QED BY <1>1, Zenon

LEMMA PlainStartStep ==
  ASSUME DacInv, Quiet, NEW c \in Chans, NEW len \in Nat \ {0}, DacStart(c, len)
  PROVE  DacInv'
<1> DEFINE k == pde.conf
<1>1. k \in Conf /\ [pde EXCEPT !.conf = k] = pde
  BY SameConf DEF DacInv, DacTypes
<1>2. pde' = Start(pde, c, len)
      /\ hist' = [hist EXCEPT !.overflow = (pde'.chan[c].room < len), !.owner = c]
      /\ board' = board /\ call' = call
  BY DEF DacStart
<1>3. PICK x \in BOOLEAN : x = (pde'.chan[c].room < len) /\ (x <=> pde'.chan[c].room < len)
  <2>1. pde \in Pde /\ len \in Nat
    BY DEF DacInv, DacTypes
  <2>2. pde' \in Pde
    BY <1>2, <2>1, StartFacts
  <2>3. pde'.chan[c].room \in Nat
    BY <2>2 DEF Pde, Channel
  <2> QED BY <2>1, <2>3, Comparison
<1> HIDE DEF k
<1>5. hist' = [hist EXCEPT !.overflow = x, !.owner = c]
  BY <1>2, <1>3
<1>6. pde' = Start([pde EXCEPT !.conf = k], c, len)
  BY <1>1, <1>2
<1> QED BY <1>1, <1>2, <1>3, <1>5, <1>6, StartStep

LEMMA PlainNoMemoryStep ==
  ASSUME DacInv, Quiet, NEW c \in Chans, DacStartNoMemory(c)
  PROVE  DacInv'
<1> DEFINE k == pde.conf
<1>1. k \in Conf /\ [pde EXCEPT !.conf = k] = pde /\ pde \in Pde
  BY SameConf DEF DacInv, DacTypes
<1>2. pde' = [pde EXCEPT !.chan[c].mdl = FALSE] /\ hist' = hist /\ board' = board /\ call' = call
  BY DEF DacStartNoMemory
<1>3. pde' = [pde EXCEPT !.conf = k, !.chan[c].mdl = FALSE]
  BY <1>1, <1>2 DEF Pde
<1> HIDE DEF k
<1> QED BY <1>1, <1>2, <1>3, NoMemoryStep

LEMMA PlainDisarmStep ==
  ASSUME DacInv, Quiet, DacDisarm
  PROVE  DacInv'
BY DisarmStep DEF DacDisarm

LEMMA RefusedArmStep ==
  ASSUME DacInv, Quiet, DacArmRefused \/ DacArmFails
  PROVE  /\ DacInv' /\ hist'.overflow = hist.overflow
         /\ \A c \in Chans : pde'.chan[c].mode = pde.chan[c].mode
<1>1. CASE DacArmRefused
  BY <1>1, KeptStep DEF DacArmRefused, dacVars
<1>2. CASE DacArmFails
  BY <1>2, ArmFailsStep
<1> QED BY <1>1, <1>2

LEMMA DirectStep ==
  ASSUME IInv, DirectNext
  PROVE  IInv'
<1>1. /\ DacInv /\ Quiet /\ caller = "direct" /\ caller' = caller /\ lib' = lib
      /\ LibTypes /\ caller \in Callers
  BY DEF IInv, LibTypes, DirectNext, Direct, DirectMode, DirectConfigure, DirectStart,
         DirectNoMemory, DirectArm, DirectDisarm, DirectStop, DirectSoftTrig, DirectGetStatus
<1>2. /\ Confs \subseteq Conf /\ Modes \subseteq Modes3 /\ Used \subseteq Chans
      /\ \A w \in Waveforms : w[1] \in Chans /\ w[2] \in Nat \ {0}
  BY <1>1, Asked
<1>3. LibTypes' /\ Believed'
  BY <1>1 DEF LibTypes, Believed
<1>4. DacInv'
  <2>1. CASE DirectMode
    <3>1. PICK c \in Used, m \in Modes : DacMode(c, m)
      BY <2>1 DEF DirectMode
    <3> QED BY <1>1, <1>2, <3>1, ModeStep
  <2>2. CASE DirectConfigure
    <3>1. PICK conf \in Confs : DacConfigure(conf)
      BY <2>2 DEF DirectConfigure
    <3> QED BY <1>1, <1>2, <3>1, ConfigureStep
  <2>3. CASE DirectStart
    <3>1. PICK w \in Waveforms : DacStart(w[1], w[2])
      BY <2>3 DEF DirectStart
    <3> QED BY <1>1, <1>2, <3>1, PlainStartStep
  <2>4. CASE DirectNoMemory
    <3>1. PICK c \in Used : DacStartNoMemory(c)
      BY <2>4 DEF DirectNoMemory
    <3> QED BY <1>1, <1>2, <3>1, PlainNoMemoryStep
  <2>5. CASE DirectArm
    <3>1. DacArmRefused \/ DacArmFails \/ DacArmBegin
      BY <2>5 DEF DirectArm
    <3> QED BY <1>1, <3>1, RefusedArmStep, ArmBeginStep
  <2>6. CASE DirectDisarm
    BY <1>1, <2>6, PlainDisarmStep DEF DirectDisarm
  <2>7. CASE DirectStop
    BY <1>1, <2>7, StopStep DEF DirectStop
  <2>8. CASE DirectSoftTrig
    BY <1>1, <2>8, SoftTrigStep DEF DirectSoftTrig
  <2>9. CASE DirectGetStatus
    BY <1>1, <2>9, GetStatusStep DEF DirectGetStatus
  <2> QED
    BY <2>1, <2>2, <2>3, <2>4, <2>5, <2>6, <2>7, <2>8, <2>9 DEF DirectNext
<1> QED BY <1>3, <1>4 DEF IInv
-----------------------------------------------------------------------------
(* The callback and the board, for either program.                         *)
LEMMA StillBelieved ==
  ASSUME Believed, caller' = caller, lib' = lib,
         \A c \in Chans : /\ pde'.chan[c].mode = pde.chan[c].mode
                          /\ pde.chan[c].room = 0 => pde'.chan[c].room = 0,
         hist'.overflow = hist.overflow,
         caller = "library" /\ ~lib.active => ~pde'.active /\ ~pde'.dma /\ call' = "none",
         lib.todo \in Seq(Chans)
  PROVE  Believed'
<1>1. SUFFICES ASSUME caller = "library" PROVE Believed'
  BY DEF Believed
<1>2. /\ lib.arming => lib.active /\ ToStart
      /\ ~lib.active => \A c \in Chans : pde.chan[c].room = 0
      /\ ModesAgree /\ ~hist.overflow
  BY <1>1 DEF Believed
<1>3. ToStart => ToStart'
  <2>1. \A i \in 1..Len(lib.todo) : lib.todo[i] \in Chans
    OBVIOUS
  <2> QED BY <2>1 DEF ToStart
<1>4. ModesAgree'
  BY <1>1, <1>2 DEF ModesAgree
<1> QED BY <1>1, <1>2, <1>3, <1>4 DEF Believed

LEMMA DriverStep ==
  ASSUME IInv, DriverNext
  PROVE  IInv'
<1>1. /\ DacInv /\ LibTypes /\ Believed /\ caller' = caller /\ lib' = lib /\ lib \in Lib
  BY DEF IInv, DriverNext, LibTypes
<1>2. LibTypes'
  BY <1>1 DEF LibTypes
<1>3. /\ lib.todo \in Seq(Chans)
      /\ caller = "library" /\ ~lib.active => ~pde.active /\ ~pde.dma /\ call = "none"
  BY <1>1 DEF Lib, Believed
<1>4. CASE DacArmActive
  <2>1. /\ DacInv' /\ pde'.chan = pde.chan /\ hist'.overflow = hist.overflow /\ call = "armed"
    BY <1>1, <1>4, ArmActiveStep DEF DacArmActive
  <2>2. Believed'
    BY <1>1, <1>3, <2>1, StillBelieved
  <2> QED BY <1>2, <2>1, <2>2 DEF IInv
<1>5. CASE DacArmDone \/ DacArmTimeout
  <2>1. /\ DacInv' /\ pde'.chan = pde.chan /\ hist'.overflow = hist.overflow /\ call = "wait"
    BY <1>1, <1>5, KickStep DEF DacArmDone, DacArmTimeout
  <2>2. Believed'
    BY <1>1, <1>3, <2>1, StillBelieved
  <2> QED BY <1>2, <2>1, <2>2 DEF IInv
<1>6. CASE DacEventL
  <2>1. /\ DacInv' /\ EventKept(pde, pde') /\ hist'.overflow = hist.overflow /\ call' = call
    BY <1>1, <1>6, EventStep DEF DacEventL
  <2>2. Believed'
    <3>1. /\ \A c \in Chans : /\ pde'.chan[c].mode = pde.chan[c].mode
                              /\ pde.chan[c].room = 0 => pde'.chan[c].room = 0
          /\ pde'.active => pde.active
          /\ pde'.dma => pde.dma
      BY <2>1 DEF EventKept
    <3> QED BY <1>1, <1>3, <2>1, <3>1, StillBelieved
  <2> QED BY <1>2, <2>1, <2>2 DEF IInv
<1>7. CASE BoardUpdate
  <2>1. DacInv' /\ pde' = pde /\ call' = call /\ hist'.overflow = hist.overflow
    BY <1>1, <1>7, UpdateStep
  <2>2. Believed'
    BY <1>1, <1>3, <2>1, StillBelieved
  <2> QED BY <1>2, <2>1, <2>2 DEF IInv
<1>8. CASE BoardFault
  <2>1. DacInv' /\ pde' = pde /\ call' = call /\ hist' = hist
    BY <1>1, <1>8, FaultStep
  <2>2. Believed'
    BY <1>1, <1>3, <2>1, StillBelieved
  <2> QED BY <1>2, <2>1, <2>2 DEF IInv
<1> QED BY <1>4, <1>5, <1>6, <1>7, <1>8 DEF DriverNext
-----------------------------------------------------------------------------
(* The library.                                                            *)
LEMMA LibWave ==
  ASSUME lib \in Lib, NEW c \in Chans, NEW w \in Wave
  PROVE  /\ [lib.wave EXCEPT ![c] = w] \in [Chans -> Wave]
         /\ [lib.wave EXCEPT ![c] = w][c] = w
         /\ \A d \in Chans : d # c => [lib.wave EXCEPT ![c] = w][d] = lib.wave[d]
<1>1. lib.wave \in [Chans -> Wave]
  BY DEF Lib
<1> QED BY <1>1

(* What is asked of a channel, its mode aside.                             *)
LEMMA SameModeAsked ==
  ASSUME lib \in Lib, NEW ch \in [Chans -> Wave],
         \A d \in Chans : ch[d].mode = lib.wave[d].mode,
         lib'.wave = ch, lib'.refused = lib.refused, caller' = caller,
         \A d \in Chans : pde'.chan[d].mode = pde.chan[d].mode, ModesAgree
  PROVE  ModesAgree'
BY DEF ModesAgree

LEMMA SetModeStep ==
  ASSUME IInv, NEW c \in Chans, NEW m \in Modes3, LibSetOutputMode(c, m)
  PROVE  IInv'
<1> DEFINE w == [lib.wave[c] EXCEPT !.mode = m]
           ch == [lib.wave EXCEPT ![c] = w]
           rf == IF ModeRefused(pde, c, m) THEN lib.refused \cup {c} ELSE lib.refused \ {c}
<1>1. /\ DacInv /\ lib \in Lib /\ caller' = caller /\ caller \in Callers /\ caller = "library"
      /\ ~lib.arming /\ call = "none" /\ call' = call /\ Quiet /\ DacMode(c, m)
      /\ hist' = hist /\ pde' = SetMode(pde, c, m) /\ pde \in Pde
      /\ ModesAgree /\ ~hist.overflow
      /\ ~lib.active => ~pde.active /\ ~pde.dma /\ \A d \in Chans : pde.chan[d].room = 0
  BY DEF IInv, LibTypes, LibSetOutputMode, Library, Quiet, DacMode, Believed, DacInv, DacTypes
<1>2. DacInv'
  BY <1>1, ModeStep
<1>3. lib' = [lib EXCEPT !.wave = ch, !.refused = rf]
  BY DEF LibSetOutputMode
<1>4. w \in Wave /\ w.mode = m
  BY <1>1 DEF Lib, Wave
<1>5. rf \in SUBSET Chans
  BY <1>1 DEF Lib
<1>6. ch \in [Chans -> Wave] /\ ch[c] = w /\ \A d \in Chans : d # c => ch[d] = lib.wave[d]
  BY <1>1, <1>4, LibWave
<1>7. (ModeRefused(pde, c, m) => rf = lib.refused \cup {c})
      /\ (~ModeRefused(pde, c, m) => rf = lib.refused \ {c})
  OBVIOUS
<1> HIDE DEF w, ch, rf
<1>8. /\ lib' \in Lib /\ lib'.wave = ch /\ lib'.refused = rf /\ lib'.arming = lib.arming
      /\ lib'.active = lib.active
  BY <1>1, <1>3, <1>5, <1>6 DEF Lib
<1>9. /\ pde'.active = pde.active /\ pde'.dma = pde.dma
      /\ \A d \in Chans :
           /\ pde'.chan[d].room = pde.chan[d].room
           /\ d # c \/ ModeRefused(pde, c, m) => pde'.chan[d].mode = pde.chan[d].mode
      /\ ~ModeRefused(pde, c, m) => pde'.chan[c].mode = m
  BY <1>1, SetModeFacts
<1>10. ModesAgree'
  <2>1. SUFFICES ASSUME NEW d \in Chans, d # Digital, d \notin rf
                 PROVE  ch[d].mode = pde'.chan[d].mode
    BY <1>8 DEF ModesAgree
  <2>2. CASE d = c
    <3>1. ~ModeRefused(pde, c, m)
      BY <1>7, <2>1, <2>2
    <3> QED BY <1>4, <1>6, <1>9, <2>2, <3>1
  <2>3. CASE d # c
    <3>1. d \notin lib.refused
      BY <1>7, <2>1, <2>3
    <3>2. lib.wave[d].mode = pde.chan[d].mode
      BY <1>1, <2>1, <3>1 DEF ModesAgree
    <3> QED BY <1>6, <1>9, <2>3, <3>2
  <2> QED BY <2>2, <2>3
<1>11. LibTypes'
  BY <1>1, <1>8 DEF LibTypes
<1>12. Believed'
  BY <1>1, <1>8, <1>9, <1>10 DEF Believed
<1> QED BY <1>2, <1>11, <1>12 DEF IInv

(* What the library notes by itself, of one channel.                       *)
LEMMA NoteStep ==
  ASSUME IInv, Library, KeepDriver, NEW c \in Chans, NEW w \in Wave,
         w.mode = lib.wave[c].mode, lib' = [lib EXCEPT !.wave[c] = w]
  PROVE  IInv'
<1> DEFINE ch == [lib.wave EXCEPT ![c] = w]
<1>1. /\ DacInv /\ lib \in Lib /\ caller' = caller /\ caller \in Callers /\ caller = "library"
      /\ ~lib.arming /\ ModesAgree /\ ~hist.overflow
      /\ ~lib.active => ~pde.active /\ ~pde.dma /\ call = "none"
                        /\ \A d \in Chans : pde.chan[d].room = 0
  BY DEF IInv, LibTypes, Library, Believed
<1>2. pde' = pde /\ call' = call /\ hist' = hist /\ UNCHANGED dacVars
  BY DEF KeepDriver, dacVars
<1>3. DacInv'
  BY <1>1, <1>2, KeptStep
<1>4. lib' = [lib EXCEPT !.wave = ch]
  OBVIOUS
<1>5. ch \in [Chans -> Wave] /\ ch[c] = w /\ \A d \in Chans : d # c => ch[d] = lib.wave[d]
  BY <1>1, LibWave
<1> HIDE DEF ch
<1>6. /\ lib' \in Lib /\ lib'.wave = ch /\ lib'.refused = lib.refused /\ lib'.arming = lib.arming
      /\ lib'.active = lib.active
  BY <1>1, <1>4, <1>5 DEF Lib
<1>7. \A d \in Chans : ch[d].mode = lib.wave[d].mode
  BY <1>5
<1>8. ModesAgree'
  BY <1>1, <1>2, <1>5, <1>6, <1>7, SameModeAsked
<1>9. LibTypes'
  BY <1>1, <1>6 DEF LibTypes
<1>10. Believed'
  BY <1>1, <1>2, <1>6, <1>8 DEF Believed
<1> QED BY <1>3, <1>9, <1>10 DEF IInv

LEMMA SetBufferStep ==
  ASSUME IInv, NEW c \in Chans, NEW len \in Nat \ {0}, LibSetBuffer(c, len)
  PROVE  IInv'
<1> DEFINE w == [lib.wave[c] EXCEPT !.len = len, !.bufNew = TRUE]
<1>1. lib.wave[c] \in Wave
  BY DEF IInv, LibTypes, Lib
<1>2. w \in Wave /\ w.mode = lib.wave[c].mode
  BY <1>1 DEF Wave
<1>3. Library /\ KeepDriver /\ lib' = [lib EXCEPT !.wave[c] = w]
  BY DEF LibSetBuffer
<1> HIDE DEF w
<1> QED BY <1>2, <1>3, NoteStep

LEMMA SetConfStep ==
  ASSUME IInv, NEW c \in Chans, NEW conf \in Conf, LibSetConf(c, conf)
  PROVE  IInv'
<1> DEFINE w == [lib.wave[c] EXCEPT !.conf = conf, !.confNew = TRUE]
<1>1. lib.wave[c] \in Wave
  BY DEF IInv, LibTypes, Lib
<1>2. w \in Wave /\ w.mode = lib.wave[c].mode
  BY <1>1 DEF Wave
<1>3. Library /\ KeepDriver /\ lib' = [lib EXCEPT !.wave[c] = w]
  BY DEF LibSetConf
<1> HIDE DEF w
<1> QED BY <1>2, <1>3, NoteStep

LEMMA WiderSeq ==
  ASSUME NEW S, NEW T, S \subseteq T, NEW s \in Seq(S)
  PROVE  s \in Seq(T)
OBVIOUS

LEMMA LibArmBeginStep ==
  ASSUME IInv, LibArmBegin
  PROVE  IInv'
<1> DEFINE waves == {c \in Chans : IsWave(c)}
           fresh == {c \in waves : lib.wave[c].bufNew}
           some == IF waves # {} THEN TRUE ELSE FALSE
           todo == InOrder(fresh)
<1>1. /\ DacInv /\ lib \in Lib /\ caller' = caller /\ caller \in Callers /\ caller = "library"
      /\ ~lib.active /\ ModesAgree /\ ~hist.overflow /\ KeepDriver
      /\ \A d \in Chans : pde.chan[d].room = 0
  BY DEF IInv, LibTypes, LibArmBegin, Library, Believed
<1>2. pde' = pde /\ call' = call /\ hist' = hist /\ UNCHANGED dacVars
  BY <1>1 DEF KeepDriver, dacVars
<1>3. DacInv'
  BY <1>1, <1>2, KeptStep
<1>4. lib' = [lib EXCEPT !.active = TRUE, !.numWave = some, !.arming = TRUE, !.todo = todo]
  <2>1. (waves # {}) = some
    OBVIOUS
  <2>2. lib' = [lib EXCEPT !.active = TRUE, !.numWave = (waves # {}), !.arming = TRUE,
                           !.todo = todo]
    BY DEF LibArmBegin
  <2> HIDE DEF some, todo, waves
  <2> QED BY <2>1, <2>2
<1>5. some \in BOOLEAN
  OBVIOUS
<1>6. /\ todo \in Seq(Chans)
      /\ \A i, j \in 1..Len(todo) : i # j => todo[i] # todo[j]
  <2>1. fresh \in SUBSET (0..Digital) /\ fresh \subseteq Chans
    BY DacAssumption
  <2> HIDE DEF fresh
  <2>2. /\ todo \in Seq(fresh) /\ Len(todo) = Cardinality(fresh)
        /\ \A i, j \in 1..Cardinality(fresh) : i # j => todo[i] # todo[j]
    BY <2>1, Ordered
  <2> HIDE DEF todo
  <2>3. todo \in Seq(Chans)
    BY <2>1, <2>2, WiderSeq
  <2> QED BY <2>2, <2>3
<1> HIDE DEF some, todo
<1>7. /\ lib' \in Lib /\ lib'.wave = lib.wave /\ lib'.refused = lib.refused
      /\ lib'.active /\ lib'.todo = todo
  BY <1>1, <1>4, <1>5, <1>6 DEF Lib
<1>8. ToStart'
  <2>1. \A i \in 1..Len(todo) : todo[i] \in Chans
    BY <1>6
  <2> QED BY <1>1, <1>2, <1>6, <1>7, <2>1 DEF ToStart
<1>9. LibTypes'
  BY <1>1, <1>7 DEF LibTypes
<1>10. Believed'
  BY <1>1, <1>2, <1>7, <1>8 DEF Believed, ModesAgree
<1> QED BY <1>3, <1>9, <1>10 DEF IInv

(* An arm of the library goes on, or gives up.                             *)
LEMMA ArmingFacts ==
  ASSUME IInv, LibArming
  PROVE  /\ DacInv /\ lib \in Lib /\ caller' = caller /\ caller \in Callers /\ caller = "library"
         /\ lib.active /\ ModesAgree /\ ~hist.overflow /\ ToStart /\ Quiet /\ lib.arming
         /\ lib.wave \in [Chans -> Wave] /\ lib.todo \in Seq(Chans)
         /\ pde \in Pde /\ hist \in History
BY DEF IInv, LibTypes, LibArming, Believed, Lib, DacInv, DacTypes

LEMMA FirstToStart ==
  ASSUME lib.todo \in Seq(Chans), lib.todo # <<>>, ToStart
  PROVE  /\ Head(lib.todo) \in Chans /\ pde.chan[Head(lib.todo)].room = 0
         /\ Tail(lib.todo) \in Seq(Chans)
         /\ \A i \in 1..Len(Tail(lib.todo)) :
              /\ Tail(lib.todo)[i] # Head(lib.todo) /\ Tail(lib.todo)[i] \in Chans
              /\ pde.chan[Tail(lib.todo)[i]].room = 0
              /\ \A j \in 1..Len(Tail(lib.todo)) :
                   i # j => Tail(lib.todo)[i] # Tail(lib.todo)[j]
<1> DEFINE s == lib.todo
           t == Tail(s)
<1>1. s \in Seq(Chans) /\ s # <<>>
  OBVIOUS
<1>2. \A i \in 1..Len(s) : /\ pde.chan[s[i]].room = 0
                           /\ \A j \in 1..Len(s) : i # j => s[i] # s[j]
  BY DEF ToStart
<1> HIDE DEF s
<1>3. /\ Head(s) = s[1] /\ s[1] \in Chans /\ 1 \in 1..Len(s) /\ t \in Seq(Chans)
      /\ Len(t) = Len(s) - 1 /\ Len(s) \in Nat
      /\ \A i \in 1..Len(t) : t[i] = s[i + 1] /\ i + 1 \in 1..Len(s) /\ t[i] \in Chans
  BY <1>1
<1> HIDE DEF t
<1>4. ASSUME NEW i \in 1..Len(t)
      PROVE  /\ t[i] # s[1] /\ t[i] \in Chans /\ pde.chan[t[i]].room = 0
             /\ \A j \in 1..Len(t) : i # j => t[i] # t[j]
  <2>1. i + 1 \in 1..Len(s) /\ i + 1 # 1 /\ t[i] = s[i + 1]
    BY <1>3
  <2>2. ASSUME NEW j \in 1..Len(t), i # j PROVE t[i] # t[j]
    BY <1>2, <1>3, <2>1, <2>2
  <2> QED BY <1>2, <1>3, <2>1, <2>2
<1>5. pde.chan[s[1]].room = 0
  BY <1>2, <1>3
<1> QED BY <1>3, <1>4, <1>5 DEF s, t

LEMMA GiveUp ==
  ASSUME lib \in Lib, lib.active, NEW ch \in [Chans -> Wave], lib' = [Failed EXCEPT !.wave = ch],
         caller \in Callers, caller' = caller, DacInv', ModesAgree, ~hist'.overflow,
         \A d \in Chans : /\ ch[d].mode = lib.wave[d].mode
                          /\ pde'.chan[d].mode = pde.chan[d].mode
  PROVE  IInv'
<1>1. /\ lib' \in Lib /\ lib'.wave = ch /\ lib'.refused = lib.refused /\ ~lib'.arming
      /\ lib'.active
  <2> DEFINE f == Failed
  <2>1. f \in Lib /\ f.refused = lib.refused /\ ~f.arming /\ f.active
    <3>1. <<>> \in Seq(Chans)
      OBVIOUS
    <3> QED BY <3>1 DEF Failed, Lib
  <2>2. lib' = [f EXCEPT !.wave = ch]
    OBVIOUS
  <2> HIDE DEF f
  <2> QED BY <2>1, <2>2 DEF Lib
<1>2. ModesAgree'
  BY <1>1, SameModeAsked
<1>3. LibTypes' /\ Believed'
  BY <1>1, <1>2 DEF LibTypes, Believed
<1> QED BY <1>3 DEF IInv

LEMMA LibArmStartStep ==
  ASSUME IInv, LibArmStart
  PROVE  IInv'
<1> DEFINE c == Head(lib.todo)
           w == lib.wave[c]
           v == [w EXCEPT !.confNew = FALSE, !.bufNew = FALSE]
           ch == [lib.wave EXCEPT ![c] = v]
           t == Tail(lib.todo)
           k == IF w.confNew THEN w.conf ELSE pde.conf
           n == w.len
<1>1. /\ DacInv /\ lib \in Lib /\ caller' = caller /\ caller \in Callers /\ caller = "library"
      /\ lib.active /\ ModesAgree /\ ~hist.overflow /\ ToStart /\ Quiet
      /\ lib.wave \in [Chans -> Wave] /\ lib.todo \in Seq(Chans)
      /\ pde \in Pde
  BY ArmingFacts DEF LibArmStart
<1>2. lib.todo # <<>> /\ board' = board /\ call' = call
  BY DEF LibArmStart
<1>3. /\ c \in Chans /\ pde.chan[c].room = 0 /\ t \in Seq(Chans)
      /\ \A i \in 1..Len(t) :
           /\ t[i] # c /\ t[i] \in Chans /\ pde.chan[t[i]].room = 0
           /\ \A j \in 1..Len(t) : i # j => t[i] # t[j]
  BY <1>1, <1>2, FirstToStart
<1>4. w \in Wave /\ v \in Wave /\ v.mode = w.mode
  BY <1>1, <1>3 DEF Wave
<1>5. n \in Nat \ {0} /\ k \in Conf
  BY <1>1, <1>4, SameConf DEF Wave
<1>6. pde' = Start([pde EXCEPT !.conf = k], c, n)
  <2>1. pde' = Start(IF w.confNew THEN [pde EXCEPT !.conf = w.conf] ELSE pde, c, n)
    BY DEF LibArmStart
  <2>2. (IF w.confNew THEN [pde EXCEPT !.conf = w.conf] ELSE pde) = [pde EXCEPT !.conf = k]
    BY <1>1, SameConf
  <2> QED BY <2>1, <2>2
<1>7. hist' = [hist EXCEPT !.overflow = (pde'.chan[c].room < n), !.owner = c]
  BY DEF LibArmStart
<1>8. lib' = [lib EXCEPT !.todo = t, !.wave = ch]
  BY DEF LibArmStart
<1>9. ch \in [Chans -> Wave] /\ ch[c] = v /\ \A d \in Chans : d # c => ch[d] = lib.wave[d]
  BY <1>1, <1>3, <1>4, LibWave
<1>10. \A d \in Chans : ch[d].mode = lib.wave[d].mode
  BY <1>4, <1>9
<1> HIDE DEF c, w, v, ch, t, k, n
<1>11. /\ lib' \in Lib /\ lib'.wave = ch /\ lib'.refused = lib.refused /\ lib'.active
       /\ lib'.todo = t
  BY <1>1, <1>3, <1>8, <1>9 DEF Lib
<1>12. PICK x \in BOOLEAN : x = (pde'.chan[c].room < n) /\ (x <=> pde'.chan[c].room < n)
  <2>1. [pde EXCEPT !.conf = k] \in Pde /\ n \in Nat
    BY <1>1, <1>5, ConfPde
  <2>2. pde' \in Pde
    BY <1>3, <1>5, <1>6, <2>1, StartFacts
  <2>3. pde'.chan[c].room \in Nat
    BY <1>3, <2>2 DEF Pde, Channel
  <2> QED BY <2>1, <2>3, Comparison
<1>13. hist' = [hist EXCEPT !.overflow = x, !.owner = c]
  BY <1>7, <1>12
<1>14. /\ DacInv' /\ (pde.chan[c].room = 0 => ~hist'.overflow)
       /\ \A d \in Chans : pde'.chan[d].mode = pde.chan[d].mode
       /\ \A d \in Chans : d # c => pde'.chan[d].room = pde.chan[d].room
  BY <1>1, <1>2, <1>3, <1>5, <1>6, <1>12, <1>13, StartStep
<1>15. ModesAgree'
  BY <1>1, <1>9, <1>10, <1>11, <1>14, SameModeAsked
<1>16. ToStart'
  BY <1>3, <1>11, <1>14 DEF ToStart
<1>17. LibTypes'
  BY <1>1, <1>11 DEF LibTypes
<1>18. Believed'
  BY <1>1, <1>3, <1>11, <1>14, <1>15, <1>16 DEF Believed
<1> QED BY <1>14, <1>17, <1>18 DEF IInv

LEMMA LibArmConfigFailsStep ==
  ASSUME IInv, LibArmConfigFails
  PROVE  IInv'
<1> DEFINE c == Head(lib.todo)
           k == lib.wave[c].conf
           ch == lib.wave
<1>1. /\ DacInv /\ lib \in Lib /\ caller' = caller /\ caller \in Callers
      /\ lib.active /\ ModesAgree /\ ~hist.overflow /\ ToStart /\ Quiet
      /\ ch \in [Chans -> Wave] /\ lib.todo \in Seq(Chans) /\ pde \in Pde
  BY ArmingFacts DEF LibArmConfigFails
<1>2. lib.todo # <<>> /\ DacConfigure(k) /\ lib' = Failed
  BY DEF LibArmConfigFails
<1>3. c \in Chans
  BY <1>1, <1>2, FirstToStart
<1>4. k \in Conf
  BY <1>1, <1>3 DEF Wave
<1>5. lib' = [Failed EXCEPT !.wave = ch]
  BY <1>1, <1>2 DEF Failed, Lib
<1> HIDE DEF c, k
<1>6. DacInv'
  BY <1>1, <1>2, <1>4, ConfigureStep
<1>7. pde' = [pde EXCEPT !.conf = k] /\ hist' = hist
  BY <1>2 DEF DacConfigure
<1>8. pde'.chan = pde.chan
  BY <1>1, <1>7 DEF Pde
<1> QED BY <1>1, <1>5, <1>6, <1>7, <1>8, GiveUp

LEMMA LibArmStartFailsStep ==
  ASSUME IInv, LibArmStartFails
  PROVE  IInv'
<1> DEFINE c == Head(lib.todo)
           w == lib.wave[c]
           v == [w EXCEPT !.confNew = FALSE]
           ch == [lib.wave EXCEPT ![c] = v]
           k == IF w.confNew THEN w.conf ELSE pde.conf
<1>1. /\ DacInv /\ lib \in Lib /\ caller' = caller /\ caller \in Callers
      /\ lib.active /\ ModesAgree /\ ~hist.overflow /\ ToStart /\ Quiet
      /\ lib.wave \in [Chans -> Wave] /\ lib.todo \in Seq(Chans) /\ pde \in Pde
  BY ArmingFacts DEF LibArmStartFails
<1>2. lib.todo # <<>> /\ board' = board /\ call' = call /\ hist' = hist
  BY DEF LibArmStartFails
<1>3. c \in Chans
  BY <1>1, <1>2, FirstToStart
<1>4. w \in Wave /\ v \in Wave /\ v.mode = w.mode
  BY <1>1, <1>3 DEF Wave
<1>5. k \in Conf
  BY <1>1, <1>4, SameConf DEF Wave
<1>6. pde' = [pde EXCEPT !.conf = k, !.chan[c].mdl = FALSE]
  BY DEF LibArmStartFails
<1>7. lib' = [Failed EXCEPT !.wave = ch]
  <2>1. lib' = [Failed EXCEPT !.wave[c].confNew = FALSE]
    BY DEF LibArmStartFails
  <2>2. Failed.wave = lib.wave
    BY <1>1 DEF Failed, Lib
  <2> QED BY <2>1, <2>2
<1>8. ch \in [Chans -> Wave] /\ ch[c] = v /\ \A d \in Chans : d # c => ch[d] = lib.wave[d]
  BY <1>1, <1>3, <1>4, LibWave
<1>9. \A d \in Chans : ch[d].mode = lib.wave[d].mode
  BY <1>4, <1>8
<1> HIDE DEF c, w, v, ch, k
<1>10. /\ DacInv'
       /\ \A d \in Chans : pde'.chan[d].mode = pde.chan[d].mode
  BY <1>1, <1>2, <1>3, <1>5, <1>6, NoMemoryStep
<1> QED BY <1>1, <1>2, <1>7, <1>8, <1>9, <1>10, GiveUp

LEMMA LibArmDoneStep ==
  ASSUME IInv, LibArm
  PROVE  IInv'
<1>1. /\ DacInv /\ lib \in Lib /\ caller' = caller /\ caller \in Callers
      /\ lib.active /\ ModesAgree /\ ~hist.overflow /\ Quiet
      /\ lib.wave \in [Chans -> Wave]
  BY ArmingFacts DEF LibArm
<1>2. CASE (DacArmRefused \/ DacArmFails) /\ lib' = Failed
  <2>1. /\ DacInv' /\ ~hist'.overflow
        /\ \A d \in Chans : pde'.chan[d].mode = pde.chan[d].mode
    BY <1>1, <1>2, RefusedArmStep
  <2>2. lib' = [Failed EXCEPT !.wave = lib.wave]
    BY <1>1, <1>2 DEF Failed, Lib
  <2> QED BY <1>1, <2>1, <2>2, GiveUp
<1>3. CASE DacArmBegin /\ lib' = [lib EXCEPT !.arming = FALSE]
  <2>1. /\ DacInv' /\ ~hist'.overflow
        /\ \A d \in Chans : pde'.chan[d].mode = pde.chan[d].mode
    BY <1>1, <1>3, ArmBeginStep
  <2>2. /\ lib' \in Lib /\ lib'.wave = lib.wave /\ lib'.refused = lib.refused /\ ~lib'.arming
        /\ lib'.active
    BY <1>1, <1>3 DEF Lib
  <2>3. ModesAgree'
    BY <1>1, <2>1, <2>2, SameModeAsked
  <2>4. LibTypes' /\ Believed'
    BY <1>1, <2>1, <2>2, <2>3 DEF LibTypes, Believed
  <2> QED BY <2>1, <2>4 DEF IInv
<1> QED BY <1>2, <1>3 DEF LibArm

(* DAC_DISARM and DAC_STOP leave all at rest.                              *)
LEMMA WaveEnds ==
  ASSUME DacInv, Quiet, pde' = Stop(Disarm(pde)), hist' = Rested(hist), BoardRests, call' = call
  PROVE  /\ DacInv' /\ ~pde'.active /\ ~pde'.dma /\ call' = "none"
         /\ hist'.overflow = hist.overflow
         /\ \A d \in Chans : pde'.chan[d].mode = pde.chan[d].mode /\ pde'.chan[d].room = 0
<1>1. pde \in Pde /\ hist \in History /\ call = "none"
  BY DEF DacInv, DacTypes, Quiet
<1>2. Ended(pde, pde')
  BY <1>1, EndFacts
<1>3. hist'.overflow = hist.overflow
  BY <1>1, RestedFacts DEF SameNoted
<1>4. DacInv'
  BY EndStep
<1>5. ~pde'.active /\ ~pde'.dma
  BY <1>2 DEF Ended, Quieted
<1>6. \A d \in Chans : pde'.chan[d].mode = pde.chan[d].mode /\ pde'.chan[d].room = 0
  BY <1>2 DEF Ended
<1> QED BY <1>1, <1>3, <1>4, <1>5, <1>6

LEMMA LibEndStep ==
  ASSUME IInv, Library, lib.active, WaveDisarm, hist' = Rested(hist), BoardRests, call' = call
  PROVE  IInv'
<1>1. /\ DacInv /\ lib \in Lib /\ caller' = caller /\ caller \in Callers /\ caller = "library"
      /\ ~lib.arming /\ ModesAgree /\ ~hist.overflow /\ Quiet /\ lib.wave \in [Chans -> Wave]
  BY DEF IInv, LibTypes, Library, Believed, Lib
<1>2. pde' = Stop(Disarm(pde)) /\ lib' = [lib EXCEPT !.active = FALSE]
  BY DEF WaveDisarm
<1>3. /\ DacInv' /\ ~pde'.active /\ ~pde'.dma /\ call' = "none"
      /\ hist'.overflow = hist.overflow
      /\ \A d \in Chans : pde'.chan[d].mode = pde.chan[d].mode /\ pde'.chan[d].room = 0
  BY <1>1, <1>2, WaveEnds
<1>4. /\ lib' \in Lib /\ lib'.wave = lib.wave /\ lib'.refused = lib.refused /\ ~lib'.arming
      /\ ~lib'.active
  BY <1>1, <1>2 DEF Lib
<1>5. ModesAgree'
  BY <1>1, <1>3, <1>4, SameModeAsked
<1>6. LibTypes' /\ Believed'
  BY <1>1, <1>3, <1>4, <1>5 DEF LibTypes, Believed
<1> QED BY <1>3, <1>6 DEF IInv

LEMMA LibDisarmStep ==
  ASSUME IInv, LibDisarm
  PROVE  IInv'
BY LibEndStep DEF LibDisarm

(* What is only asked of the driver, and what rests since.                 *)
LEMMA LookStep ==
  ASSUME DacInv, Quiet, NEW e \in Errors, e \in {pde.error, "None"},
         pde' = [pde EXCEPT !.error = e], hist' = Rested(hist), BoardRests, call' = call
  PROVE  /\ DacInv' /\ hist'.overflow = hist.overflow /\ pde'.chan = pde.chan
         /\ pde'.active = pde.active /\ pde'.dma = pde.dma
<1>1. pde \in Pde /\ board \in Fed /\ hist \in History /\ call = "none"
  BY DEF DacInv, DacTypes, Quiet
<1>2. pde' \in Pde
  BY <1>1 DEF Pde
<1>3. /\ SameDma(pde, pde') /\ SameTimer(pde, pde') /\ pde'.pacer = pde.pacer
      /\ pde'.error = e /\ pde'.chan = pde.chan /\ pde'.single = pde.single
  BY <1>1 DEF Pde, SameDma, SameTimer, SameCount
<1>4. /\ pde'.dma = pde.dma /\ pde'.active = pde.active /\ pde'.n = pde.n
      /\ pde'.dmaed = pde.dmaed
  BY <1>3 DEF SameDma, SameCount
<1>5. hist' \in History /\ SameNoted(hist, hist') /\ (pde'.dma => hist'.updates = hist.updates)
  BY <1>1, RestedFacts
<1>6. hist'.overflow = hist.overflow /\ hist'.owner = hist.owner
  BY <1>5 DEF SameNoted
<1>7. /\ board' \in Fed /\ Len(board'.fifo) <= FifoDepth
      /\ pde'.dma => board' = board
  BY <1>1, RestingBoard DEF DacInv, Fetching
<1>8. Transferred'
  <2>1. NoNewTransfer(pde, pde')
    BY <1>3 DEF NoNewTransfer, DacInv, Transferred, Owned
  <2> QED BY <1>6, <2>1, StillTransferred DEF DacInv
<1>9. CASE pde.dma
  <2>1. board' = board /\ hist'.updates = hist.updates /\ hist'.seen = hist.seen
        /\ hist'.overtook = hist.overtook /\ hist'.late = hist.late
        /\ hist'.stopped = hist.stopped
    BY <1>4, <1>5, <1>7, <1>9 DEF SameNoted
  <2>2. DacInv'
    BY <1>2, <1>3, <1>5, <1>8, <2>1, LiveStep
  <2> QED BY <1>3, <1>4, <1>6, <2>2
<1>10. CASE ~pde.dma
  <2>1. DacTypes'
    BY <1>1, <1>2, <1>5, <1>7 DEF DacTypes
  <2>2. Fetching' /\ Counting'
    BY <1>4, <1>5, <1>7, <1>10 DEF Fetching, Counting, SameNoted, DacInv
  <2>3. Served'
    BY <1>1, <1>3, <1>4, <1>5, <1>10 DEF DacInv, Served, Watched, Quieted, SameNoted, SameTimer
  <2>4. Fitting'
    BY <1>1 DEF Fitting
  <2>5. DacInv'
    BY <1>8, <2>1, <2>2, <2>3, <2>4 DEF DacInv
  <2> QED BY <1>3, <1>4, <1>6, <2>5
<1> QED BY <1>9, <1>10

LEMMA LibGetStatStep ==
  ASSUME IInv, LibGetStat
  PROVE  IInv'
<1>1. /\ DacInv /\ LibTypes /\ Believed /\ Quiet /\ pde \in Pde /\ caller' = caller /\ Library
      /\ hist' = Rested(hist) /\ BoardRests /\ call' = call /\ call = "none"
  BY DEF IInv, LibGetStat, Library, DacInv, DacTypes, Quiet
<1>2. ASSUME lib' = lib, NEW e \in Errors, e \in {pde.error, "None"},
             pde' = [pde EXCEPT !.error = e]
      PROVE  IInv'
  <2>1. /\ DacInv' /\ hist'.overflow = hist.overflow /\ pde'.chan = pde.chan
        /\ pde'.active = pde.active /\ pde'.dma = pde.dma
    BY <1>1, <1>2, LookStep
  <2>2. LibTypes' /\ lib.todo \in Seq(Chans)
    BY <1>1, <1>2 DEF LibTypes, Lib
  <2>3. caller = "library" /\ ~lib.active => ~pde.active /\ ~pde.dma /\ call = "none"
    BY <1>1 DEF Believed
  <2>4. Believed'
    BY <1>1, <1>2, <2>1, <2>2, <2>3, StillBelieved
  <2> QED BY <2>1, <2>2, <2>4 DEF IInv
<1>3. "None" \in Errors /\ pde.error \in Errors /\ pde = [pde EXCEPT !.error = pde.error]
  BY <1>1 DEF Errors, Pde
<1>4. CASE pde.error # "None" /\ pde' = [pde EXCEPT !.error = "None"] /\ UNCHANGED lib
  BY <1>2, <1>3, <1>4
<1>5. CASE UNCHANGED <<pde, lib>>
  BY <1>2, <1>3, <1>5
<1>6. CASE WaveDisarm /\ lib.active
  BY <1>1, <1>6, LibEndStep
<1>7. CASE WaveDisarm /\ ~lib.active
  BY <1>5, <1>7 DEF WaveDisarm
<1> QED BY <1>4, <1>5, <1>6, <1>7 DEF LibGetStat

LEMMA LibSoftTrigStep ==
  ASSUME IInv, LibSoftTrig
  PROVE  IInv'
<1>1. /\ DacInv /\ LibTypes /\ Believed /\ Quiet /\ pde \in Pde /\ caller' = caller
      /\ DacSoftTrig /\ lib' = lib /\ call' = call /\ hist' = hist /\ call = "none"
      /\ pde' = [pde EXCEPT !.pacer = TRUE]
  BY DEF IInv, LibSoftTrig, Library, DacInv, DacTypes, Quiet, DacSoftTrig
<1>2. DacInv'
  BY <1>1, SoftTrigStep
<1>3. pde'.chan = pde.chan /\ pde'.active = pde.active /\ pde'.dma = pde.dma
  BY <1>1 DEF Pde
<1>4. LibTypes' /\ lib.todo \in Seq(Chans)
  BY <1>1 DEF LibTypes, Lib
<1>5. caller = "library" /\ ~lib.active => ~pde.active /\ ~pde.dma /\ call = "none"
  BY <1>1 DEF Believed
<1>6. Believed'
  BY <1>1, <1>3, <1>4, <1>5, StillBelieved
<1> QED BY <1>2, <1>4, <1>6 DEF IInv

LEMMA InitLibFacts ==
  /\ InitLib \in Lib /\ ~InitLib.active /\ ~InitLib.arming /\ InitLib.refused = {}
  /\ \A c \in Chans : InitLib.wave[c].mode = "voltage"
<1> DEFINE w == [NewWave EXCEPT !.conf = NewConf]
           ch == [c \in Chans |-> w]
<1>1. w \in Wave /\ w.mode = "voltage"
  <2>1. NewConf \in Conf
    BY DEF NewConf, Conf
  <2>2. InitPde.conf \in Conf
    BY DEF InitPde, Conf
  <2>3. NewWave \in Wave /\ NewWave.mode = "voltage"
    BY <2>2 DEF NewWave, Wave, Modes3
  <2> QED BY <2>1, <2>3 DEF Wave
<1>2. ch \in [Chans -> Wave] /\ \A c \in Chans : ch[c].mode = "voltage"
  BY <1>1
<1>3. <<>> \in Seq(Chans)
  OBVIOUS
<1>4. InitLib = [active |-> FALSE, numWave |-> FALSE, todo |-> <<>>, arming |-> FALSE,
                 wave |-> ch, refused |-> {}]
  BY DEF InitLib
<1> HIDE DEF ch
<1> QED BY <1>2, <1>3, <1>4 DEF Lib

LEMMA LibReopenStep ==
  ASSUME IInv, LibReopen
  PROVE  IInv'
<1>1. /\ DacInv /\ Quiet /\ pde \in Pde /\ caller' = caller /\ caller \in Callers
      /\ hist' = Rested(hist) /\ BoardRests /\ call' = call /\ call = "none"
      /\ caller = "library" /\ lib' = InitLib /\ ~hist.overflow /\ hist \in History
      /\ Owned(pde)
  BY DEF IInv, LibReopen, DacInv, DacTypes, Quiet, LibTypes, Believed, Transferred
<1>2. ASSUME NEW p \in Pde, pde' = Opened(p), ~p.active, ~p.dma, ~p.pacer, p.n = pde.n,
             p.dmaed = pde.dmaed, NoNewTransfer(pde, p), \A c \in Chans : p.chan[c].room = 0
      PROVE  IInv'
  <2>1. Quieted(p)
    BY <1>2 DEF Quieted
  <2>2. DacInv'
    BY <1>1, <1>2, <2>1, ReopenStep
  <2>3. /\ SameRun(p, pde')
        /\ \A c \in Chans : /\ pde'.chan[c].room = p.chan[c].room
                            /\ c # Digital => pde'.chan[c].mode = "voltage"
    BY <1>2, OpenedFacts
  <2>4. ~pde'.active /\ ~pde'.dma
    BY <1>2, <2>3 DEF SameRun
  <2>5. ~hist'.overflow
    BY <1>1, RestedFacts DEF SameNoted
  <2>6. ModesAgree'
    BY <1>1, <2>3, InitLibFacts DEF ModesAgree
  <2>7. LibTypes' /\ Believed'
    BY <1>1, <1>2, <2>3, <2>4, <2>5, <2>6, InitLibFacts DEF LibTypes, Believed
  <2> QED BY <2>2, <2>7 DEF IInv
<1>3. CASE pde' = Opened(Stop(Disarm(pde)))
  <2> DEFINE p == Stop(Disarm(pde))
  <2>1. p \in Pde /\ Ended(pde, p) /\ p.dmaed = pde.dmaed
    BY <1>1, EndFacts
  <2>2. pde' = Opened(p)
    BY <1>3
  <2> HIDE DEF p
  <2>3. NoNewTransfer(pde, p)
    BY <1>1, <2>1, EndedTransfers
  <2>4. /\ ~p.active /\ ~p.dma /\ ~p.pacer /\ p.n = pde.n
        /\ \A c \in Chans : p.chan[c].room = 0
    BY <2>1 DEF Ended, Quieted
  <2> QED BY <1>2, <2>1, <2>2, <2>3, <2>4
<1>4. CASE pde' = Opened(Disarm(pde))
  <2> DEFINE p == Disarm(pde)
  <2>1. /\ p \in Pde /\ ~p.active /\ ~p.dma /\ ~p.pacer
        /\ SameAsked(pde, p) /\ SameChans(pde, p) /\ p.n = pde.n /\ p.dmaed = pde.dmaed
        /\ \A c \in Chans : p.chan[c].room = 0
    BY <1>1, DisarmFacts
  <2>2. pde' = Opened(p)
    BY <1>4
  <2> HIDE DEF p
  <2>3. NoNewTransfer(pde, p)
    BY <1>1, <2>1 DEF NoNewTransfer, SameAsked, SameChans, Owned
  <2> QED BY <1>2, <2>1, <2>2, <2>3
<1> QED BY <1>3, <1>4 DEF LibReopen

LEMMA LibraryStep ==
  ASSUME IInv, LibraryNext
  PROVE  IInv'
<1>1. /\ Confs \subseteq Conf /\ Modes \subseteq Modes3 /\ Used \subseteq Chans
      /\ \A w \in Waveforms : w[1] \in Chans /\ w[2] \in Nat \ {0}
  BY Asked DEF IInv, LibTypes
<1>2. CASE \E c \in Used : \E m \in Modes : LibSetOutputMode(c, m)
  BY <1>1, <1>2, SetModeStep
<1>3. CASE \E c \in Used : \E conf \in Confs : LibSetConf(c, conf)
  BY <1>1, <1>3, SetConfStep
<1>4. CASE \E w \in Waveforms : LibSetBuffer(w[1], w[2])
  BY <1>1, <1>4, SetBufferStep
<1> QED
  BY <1>2, <1>3, <1>4, LibArmBeginStep, LibArmStartStep, LibArmConfigFailsStep,
     LibArmStartFailsStep, LibArmDoneStep, LibDisarmStep, LibSoftTrigStep, LibGetStatStep,
     LibReopenStep DEF LibraryNext
-----------------------------------------------------------------------------
(* The invariant holds.                                                    *)
LEMMA InitPdeFacts ==
  /\ InitPde \in Pde /\ ~InitPde.dma /\ ~InitPde.active /\ InitPde.error = "None"
  /\ InitPde.n = 0 /\ InitPde.dmaed = 0
  /\ \A c \in Chans : /\ ~InitPde.chan[c].mdl /\ InitPde.chan[c].room = 0
                      /\ InitPde.chan[c].mode = "voltage"
<1> DEFINE ch == [c \in Chans |-> NoTransfer]
           conf == [infinite |-> FALSE, stop |-> 0, trig |-> "immediate"]
<1>1. /\ NoTransfer \in Channel /\ ~NoTransfer.mdl /\ NoTransfer.room = 0
      /\ NoTransfer.mode = "voltage"
  BY Sizes DEF NoTransfer, Channel, Modes3
<1>2. /\ ch \in [Chans -> Channel]
      /\ \A c \in Chans : ~ch[c].mdl /\ ch[c].room = 0 /\ ch[c].mode = "voltage"
  BY <1>1
<1>3. conf \in Conf
  BY DEF Conf
<1>4. InitPde = [chan |-> ch, conf |-> conf,
                 single |-> 0, n |-> 0, first |-> 0, dynamic |-> FALSE, total |-> 0,
                 ring |-> RingSamples, last |-> 0, pending |-> FALSE, cut |-> FALSE,
                 cells |-> NoSamples, pad |-> Junk,
                 active |-> FALSE, triggered |-> FALSE, transfer |-> FALSE, error |-> "None",
                 count |-> 0, old |-> 0, dmaed |-> 0, removed |-> 0,
                 dma |-> FALSE, pacer |-> FALSE, enabled |-> {},
                 running |-> FALSE, die |-> FALSE, timer |-> FALSE]
  BY DEF InitPde
<1> HIDE DEF ch, conf
<1>5. /\ ~InitPde.dma /\ ~InitPde.active /\ InitPde.error = "None"
      /\ InitPde.n = 0 /\ InitPde.dmaed = 0 /\ InitPde.chan = ch
  BY <1>4
<1>6. InitPde \in Pde
  BY <1>2, <1>3, <1>4, Sizes DEF Pde, Errors
<1> QED BY <1>2, <1>5, <1>6

LEMMA InitInv == Init => IInv
<1> SUFFICES ASSUME Init PROVE IInv
  OBVIOUS
<1>1. /\ pde = InitPde /\ board = InitBoard /\ call = "none" /\ hist = InitHist
      /\ caller \in Callers /\ lib = InitLib
  BY DEF Init, DacInit
<1>2. /\ hist \in History /\ hist.seen = 0 /\ ~hist.overflow
  BY <1>1 DEF InitHist, History, Digital
<1>3. DacTypes
  BY <1>1, <1>2, InitPdeFacts, InitBoardFacts DEF DacTypes
<1>4. Transferred
  BY <1>1, InitPdeFacts DEF Transferred, Owned
<1>5. Fetching
  BY <1>1, InitPdeFacts, InitBoardFacts DEF Fetching
<1>6. Counting
  BY <1>1, <1>2, InitPdeFacts DEF Counting
<1>7. Served
  BY <1>1, InitPdeFacts DEF Served
<1>8. Fitting
  BY <1>1 DEF Fitting
<1>9. LibTypes
  BY <1>1, InitLibFacts DEF LibTypes
<1>10. ModesAgree
  BY <1>1, InitPdeFacts, InitLibFacts DEF ModesAgree
<1>11. Believed
  BY <1>1, <1>2, <1>10, InitPdeFacts, InitLibFacts DEF Believed
<1> QED BY <1>3, <1>4, <1>5, <1>6, <1>7, <1>8, <1>9, <1>11 DEF IInv, DacInv

LEMMA NextInv == IInv /\ [Next]_vars => IInv'
<1> SUFFICES ASSUME IInv, [Next]_vars PROVE IInv'
  OBVIOUS
<1>1. CASE UNCHANGED vars
  <2>1. /\ pde' = pde /\ board' = board /\ call' = call /\ hist' = hist
        /\ caller' = caller /\ lib' = lib
    BY <1>1 DEF vars
  <2>2. DacInv'
    BY <2>1, KeptStep DEF IInv, dacVars
  <2>3. LibTypes' /\ lib.todo \in Seq(Chans)
    BY <2>1 DEF IInv, LibTypes, Lib
  <2>4. caller = "library" /\ ~lib.active => ~pde.active /\ ~pde.dma /\ call = "none"
    BY DEF IInv, Believed
  <2>5. Believed'
    BY <2>1, <2>3, <2>4, StillBelieved DEF IInv
  <2> QED BY <2>2, <2>3, <2>5 DEF IInv
<1> QED BY <1>1, DirectStep, LibraryStep, DriverStep DEF Next

(* The invariant of driver, board and library.                             *)
LEMMA Invariance == Spec => []IInv
BY InitInv, NextInv, PTL DEF Spec
-----------------------------------------------------------------------------
(* What dacGetStatus reports never exceeds what the board had put out at   *)
(* the last callback, and while the waveform is active it is that number   *)
(* exactly, however often the 16-bit register has come round               *)
(* (dac.c:1147-1160, 1190-1197, 1337-1353).                                *)
THEOREM CountsStayHonest == Spec => []CountsHonest
<1>1. IInv => CountsHonest
  BY DEF IInv, DacInv, Counting, Counted, Served, CountsHonest, Watched
<1> QED BY <1>1, Invariance, PTL

(* Once dacArm has returned, a waveform that ended in an error has neither *)
(* its DMA nor its pacer running, and the driver does not report it active *)
(* (dac.c:954-958, 1163-1187).                                             *)
THEOREM ErrorsQuiesce == Spec => []ErrorQuiesces
<1>1. IInv => ErrorQuiesces
  BY DEF IInv, DacInv, Served, Quieted, ErrorQuiesces
<1> QED BY <1>1, Invariance, PTL

(* The ring is not written past its end, no NULL buffer is read for it,    *)
(* and no transfer of the library is copied past what kmalloc gave, for    *)
(* every ring, block, FIFO and length of waveform (dac.c:604-630, 783-861, *)
(* 1105-1136).                                                             *)
THEOREM CopiesStayInside == Spec => []CopiesFit
<1>1. IInv => CopiesFit
  <2>1. SUFFICES ASSUME IInv PROVE CopiesFit
    OBVIOUS
  <2>2. /\ pde \in Pde /\ board \in Fed /\ call \in {"none", "armed", "wait"}
        /\ caller \in Callers
    BY <2>1 DEF IInv, DacInv, DacTypes, LibTypes
  <2>3. TypeOK
    <3>1. \A c \in Chans : pde.chan[c].head \in 0..MaxLen
      BY <2>2 DEF Pde, Channel
    <3>2. \A c \in Chans : pde.chan[c].mdl => pde.chan[c].buf
      BY <2>1 DEF IInv, DacInv, Transferred, Owned
    <3>3. pde.ring \in 1..RingSamples /\ pde.last \in 0..RingSamples
      BY <2>2 DEF Pde
    <3>4. board.at < RingSamples /\ Len(board.fifo) <= FifoDepth
      BY <2>1, <2>2, Sizes DEF IInv, DacInv, Fetching, Fed
    <3> QED BY <2>2, <3>1, <3>2, <3>3, <3>4 DEF TypeOK
  <2>4. WavesFit
    BY <2>1 DEF IInv, DacInv, Fitting, WavesFit, OddOne, Fits
  <2>5. LibraryCopiesFit
    BY <2>1 DEF IInv, Believed, LibraryCopiesFit
  <2> QED BY <2>3, <2>4, <2>5 DEF CopiesFit
<1> QED BY <1>1, Invariance, PTL

(* An active waveform has its DMA and a timer that will look after it, and *)
(* when the library takes the output for idle, nothing runs and nothing is *)
(* being armed (dac.c:115-157, 954-958, 1290-1334, apidac.c:2264-2430).    *)
THEOREM ActivityStaysAgreed == Spec => []ActivityAgrees
<1>1. IInv => ActivityAgrees
  <2>1. SUFFICES ASSUME IInv PROVE ActivityAgrees
    OBVIOUS
  <2>2. ActiveServed
    BY <2>1 DEF IInv, DacInv, Served, ActiveServed, Watched
  <2>3. IdleMeansIdle
    BY <2>1 DEF IInv, Believed, IdleMeansIdle
  <2> QED BY <2>2, <2>3 DEF ActivityAgrees
<1> QED BY <1>1, Invariance, PTL

(* The library and the driver hold the same mode for every analog channel, *)
(* but for one whose change the driver refused after the library had taken *)
(* it (apidac.c:898-955, 1385-1448, dac.c:479-487).                        *)
THEOREM ModesStayAgreed == Spec => []ModesAgree
<1>1. IInv => ModesAgree
  BY DEF IInv, Believed, ModesAgree
<1> QED BY <1>1, Invariance, PTL
-----------------------------------------------------------------------------
(* That a static waveform comes out of the board sample for sample.        *)

(* The channels that are put out, in the order of an update.               *)
Order(p) == InOrder(p.enabled)

(* Where a counted waveform that fits the ring ends, and what the pad      *)
(* block repeats after it.                                                 *)
Ending(p, stop, single) ==
  /\ stop > 0 /\ stop * p.n <= p.ring /\ p.last = stop * p.n
  /\ \A i \in 1..p.n : p.pad[i] = <<Order(p)[i], (stop - 1) % single>>

(* The ring holds whole periods of a static waveform.                      *)
Laid(p, stop, single) ==
  /\ ~p.dynamic /\ p.n = Cardinality(p.enabled) /\ p.n > 0
  /\ \E k \in Nat \ {0} : p.ring = k * single * p.n
  /\ \A t \in 0..(p.ring - 1) :
       p.cells[t] = <<Order(p)[(t % p.n) + 1], (t \div p.n) % single>>
  /\ p.cut <=> p.pending
  /\ p.pending => Ending(p, stop, single)

(* The samples the board should be given, in the order it is given them:   *)
(* the one at place t, from 0.                                             *)
Due(p, stop, single, t) ==
  LET u == t \div p.n
      held == p.pending /\ u >= stop
  IN  <<Order(p)[(t % p.n) + 1], (IF held THEN stop - 1 ELSE u) % single>>

(* The DMA is inside a block, which ends where a block may end.            *)
Within(p, b) ==
  /\ b.at < b.end
  /\ b.toPad => p.pending /\ b.end = p.last
  /\ ~b.toPad => /\ b.end <= p.ring
                 /\ b.end = p.ring \/ \E k \in Nat : b.end = k * Block
                 /\ p.pending => b.end <= FinalBlock(p) * Block

(* The DMA takes place t next.                                             *)
Takes(p, b, stop, t) ==
  /\ b.inPad => p.pending /\ t >= stop * p.n /\ b.at = t % p.n
  /\ ~b.inPad => /\ p.pending => t < stop * p.n
                 /\ b.at = t % p.ring
                 /\ Within(p, b)

(* After u updates the FIFO holds what follows them, and the DMA goes on   *)
(* after that.                                                             *)
Plays(p, b, stop, single, u) ==
  /\ \A i \in 1..Len(b.fifo) : b.fifo[i] = Due(p, stop, single, (u * p.n) + (i - 1))
  /\ Takes(p, b, stop, (u * p.n) + Len(b.fifo))

(* No channel that is put out has gone back to voltage mode.               *)
Audible(p) == \A c \in p.enabled : p.chan[c].mode # "voltage"

Playing(p, b, h) ==
  /\ h.single > 0 /\ Audible(p) /\ Laid(p, h.stop, h.single)
  /\ Plays(p, b, h.stop, h.single, h.updates)

OutInv == hist.clean => ~hist.bad /\ (pde.dma => Playing(pde, board, hist))
-----------------------------------------------------------------------------
(* Remainders.                                                             *)
LEMMA ShiftMod ==
  ASSUME NEW b \in Nat \ {0}, NEW a \in Int, NEW c \in Int
  PROVE  ((b * a) + c) % b = c % b /\ ((b * a) + c) \div b = a + (c \div b)
<1> DEFINE q == c \div b
           r == c % b
<1>1. r \in 0..(b - 1) /\ c = (b * q) + r /\ q \in Int
  BY ModRange
<1> HIDE DEF q, r
<1>2. (b * a) + c = ((a + q) * b) + r
  <2>1. (a + q) * b = (b * a) + (b * q)
    BY <1>1
  <2>2. b * a \in Int /\ b * q \in Int /\ r \in Int
    BY <1>1
  <2> QED BY <1>1, <2>1, <2>2
<1> DEFINE x == (b * a) + c
<1>3. x \in Int /\ a + q \in Int
  BY <1>1
<1>4. x = ((a + q) * b) + r
  BY <1>2
<1> HIDE DEF x
<1>5. x % b = r /\ x \div b = a + q
  BY <1>1, <1>3, <1>4, DivUnique
<1> QED BY <1>5 DEF x, q, r

LEMMA NextMod ==
  ASSUME NEW b \in Nat \ {0}, NEW t \in Nat
  PROVE  /\ (t % b) + 1 < b => (t + 1) % b = (t % b) + 1
         /\ (t % b) + 1 = b => (t + 1) % b = 0
         /\ ((t % b) + 1) % b = (t + 1) % b
<1> DEFINE q == t \div b
           r == t % b
<1>1. r \in 0..(b - 1) /\ t = (b * q) + r /\ q \in Int
  BY ModRange
<1> HIDE DEF q, r
<1>2. (t + 1) % b = (r + 1) % b
  <2>1. t + 1 = (b * q) + (r + 1) /\ r + 1 \in Int
    <3>1. b * q \in Int
      BY <1>1
    <3> QED BY <1>1, <3>1
  <2> QED BY <1>1, <2>1, ShiftMod
<1>3. CASE r + 1 < b
  <2>1. r + 1 \in Int /\ r + 1 \in 0..(b - 1) /\ r + 1 = (0 * b) + (r + 1)
    BY <1>1, <1>3
  <2>2. (r + 1) % b = r + 1
    BY <2>1, DivUnique
  <2> QED BY <1>1, <1>2, <1>3, <2>2 DEF r
<1>4. CASE r + 1 = b
  <2>1. r + 1 \in Int /\ 0 \in 0..(b - 1) /\ r + 1 = (1 * b) + 0
    BY <1>1, <1>4
  <2>2. (r + 1) % b = 0
    BY <2>1, DivUnique
  <2> QED BY <1>1, <1>2, <1>4, <2>2 DEF r
<1> QED BY <1>1, <1>3, <1>4

(* The place in the ring has the channel and the sample of the place in    *)
(* the stream.                                                             *)
LEMMA RingCycles ==
  ASSUME NEW n \in Nat \ {0}, NEW s \in Nat \ {0}, NEW k \in Nat \ {0}, NEW ring,
         ring = k * s * n, NEW t \in Nat
  PROVE  /\ ring \in Nat \ {0} /\ t % ring \in 0..(ring - 1)
         /\ (t % ring) % n = t % n
         /\ ((t % ring) \div n) % s = (t \div n) % s
<1>1. ring \in Nat \ {0}
  <2>1. k * s \in Nat \ {0}
    BY ProductPos
  <2> DEFINE m == k * s
  <2> HIDE DEF m
  <2>2. m * n \in Nat \ {0}
    BY <2>1, ProductPos DEF m
  <2> QED BY <2>2 DEF m
<1> DEFINE r == t % ring
           a == t \div ring
           v == r \div n
<1>2. r \in 0..(ring - 1) /\ t = (ring * a) + r /\ a \in Int
  <2>1. t \in Int
    OBVIOUS
  <2> QED BY <1>1, <2>1, ModRange
<1> HIDE DEF r, a
<1>3. r \in Int
  BY <1>1, <1>2
<1>4. v \in Int
  BY <1>3, ModRange
<1> HIDE DEF v
<1>5. t = (n * (s * (k * a))) + r /\ s * (k * a) \in Int /\ k * a \in Int
  <2>1. k * a \in Int /\ s * (k * a) \in Int
    BY <1>2
  <2>2. k * s * n * a = n * (s * (k * a))
    BY <1>2
  <2> QED BY <1>2, <2>1, <2>2
<1> DEFINE w == k * a
           z == s * w
<1>6. w \in Int /\ z \in Int /\ t = (n * z) + r
  BY <1>5
<1> HIDE DEF z
<1>7. t % n = r % n /\ t \div n = z + v
  BY <1>3, <1>6, ShiftMod DEF v
<1> HIDE DEF w
<1>8. (t \div n) % s = v % s
  <2>1. t \div n = (s * w) + v
    BY <1>7 DEF z
  <2>2. ((s * w) + v) % s = v % s
    BY <1>4, <1>6, ShiftMod
  <2> QED BY <2>1, <2>2
<1> QED BY <1>1, <1>2, <1>7, <1>8 DEF r, v
-----------------------------------------------------------------------------
(* The DMA.                                                                *)
LEMMA LaidFacts ==
  ASSUME NEW p \in Pde, NEW stop \in Nat, NEW single \in Nat \ {0}, Laid(p, stop, single)
  PROVE  /\ p.n \in Nat \ {0} /\ p.ring \in Nat \ {0} /\ p.ring <= RingSamples
         /\ Block \in Nat \ {0}
         /\ p.pending => p.last \in 1..p.ring /\ p.last = stop * p.n
         /\ Order(p) \in [1..p.n -> p.enabled] /\ Order(p) \in Seq(p.enabled)
         /\ Len(Order(p)) = p.n
<1>1. p.n \in Nat \ {0} /\ p.ring \in 1..RingSamples /\ p.last \in 0..RingSamples
      /\ p.enabled \in SUBSET Chans
  BY DEF Pde, Laid
<1>2. p.enabled \in SUBSET (0..Digital)
  BY <1>1, DacAssumption
<1>3. /\ Order(p) \in [1..p.n -> p.enabled] /\ Order(p) \in Seq(p.enabled)
      /\ Len(Order(p)) = p.n
  BY <1>2, Ordered DEF Order, Laid
<1>4. ASSUME p.pending PROVE p.last \in 1..p.ring /\ p.last = stop * p.n
  <2>1. stop > 0 /\ stop * p.n <= p.ring /\ p.last = stop * p.n
    BY <1>4 DEF Laid, Ending
  <2>2. stop * p.n \in Nat \ {0}
    BY <1>1, <2>1, ProductPos
  <2> QED BY <1>1, <2>1, <2>2
<1> QED BY <1>1, <1>3, <1>4, Sizes, DacAssumption

(* A block that begins where it may leads the DMA to where it may end.     *)
LEMMA LoadWithin ==
  ASSUME NEW p \in Pde, NEW stop \in Nat, NEW single \in Nat \ {0}, Laid(p, stop, single),
         NEW b \in Nat, b * Block < p.ring, p.pending => b <= FinalBlock(p),
         NEW m, m.at = b * Block, m.end = Load(p, b).end, m.toPad = Load(p, b).toPad
  PROVE  Within(p, m)
<1>1. /\ p.n \in Nat \ {0} /\ p.ring \in Nat \ {0} /\ Block \in Nat \ {0}
      /\ p.pending => p.last \in 1..p.ring
  BY LaidFacts
<1>2. p.cut <=> p.pending
  BY DEF Laid
<1> DEFINE f == FinalBlock(p)
<1>3. ASSUME p.pending PROVE f \in Nat /\ f * Block < p.last
  <2>1. p.last - 1 \in Nat /\ p.last # 0
    BY <1>1, <1>3
  <2>2. f = (p.last - 1) \div Block
    BY <2>1 DEF FinalBlock
  <2>3. f \in Nat /\ f * Block <= p.last - 1
    BY <1>1, <2>1, <2>2, DivNat
  <2>4. f * Block \in Nat
    BY <1>1, <2>3, ProductNat
  <2> HIDE DEF f
  <2> QED BY <1>1, <1>3, <2>3, <2>4
<1>4. CASE p.cut /\ b = f
  <2>1. m.end = p.last /\ m.toPad
    BY <1>4 DEF Load
  <2> QED BY <1>1, <1>2, <1>3, <1>4, <2>1 DEF Within
<1>5. CASE ~(p.cut /\ b = f)
  <2> DEFINE x == (b + 1) * Block
  <2>1. x = (b * Block) + Block /\ b * Block \in Nat /\ x \in Nat /\ b + 1 \in Nat
    <3>1. b * Block \in Nat
      BY <1>1, ProductNat
    <3>2. (b + 1) * Block = (b * Block) + Block
      BY <1>1
    <3> QED BY <1>1, <3>1, <3>2
  <2>2. m.end = Upto(x, p.ring) /\ ~m.toPad
    BY <1>5 DEF Load, BlockEnd
  <2> HIDE DEF x
  <2>3. m.at < m.end /\ m.end <= p.ring
    BY <1>1, <2>1, <2>2 DEF Upto
  <2>4. m.end = p.ring \/ m.end = x
    BY <2>2 DEF Upto
  <2>5. ASSUME p.pending PROVE m.end <= f * Block
    <3>1. f \in Nat /\ b + 1 <= f /\ f * Block \in Nat
      <4>1. f \in Nat /\ b <= f /\ b # f
        BY <1>2, <1>3, <1>5, <2>5
      <4>2. f * Block \in Nat
        BY <1>1, <4>1, ProductNat
      <4> HIDE DEF f
      <4> QED BY <4>1, <4>2
    <3> HIDE DEF f
    <3>2. f * Block = x + ((f - (b + 1)) * Block) /\ (f - (b + 1)) * Block \in Nat
      <4>1. f - (b + 1) \in Nat
        BY <3>1
      <4>2. (f - (b + 1)) * Block \in Nat
        BY <1>1, <4>1, ProductNat
      <4> QED BY <1>1, <3>1, <4>2 DEF x
    <3>3. x <= f * Block
      BY <2>1, <3>1, <3>2
    <3> QED BY <1>1, <2>1, <2>2, <3>1, <3>3 DEF Upto
  <2>6. \/ m.end = p.ring
        \/ \E k \in Nat : m.end = k * Block
    BY <2>1, <2>4 DEF x
  <2> QED BY <2>2, <2>3, <2>5, <2>6 DEF Within
<1> QED BY <1>4, <1>5
-----------------------------------------------------------------------------
LEMMA DivAtLeast ==
  ASSUME NEW t \in Nat, NEW n \in Nat \ {0}, NEW s \in Nat
  PROVE  t \div n >= s <=> t >= s * n
<1> DEFINE q == t \div n
<1>1. q \in Nat /\ q * n <= t /\ t < (q * n) + n
  BY DivNat
<1> HIDE DEF q
<1>2. q * n \in Nat /\ s * n \in Nat
  BY <1>1, ProductNat
<1>3. CASE q >= s
  <2>1. q - s \in Nat
    BY <1>1, <1>3
  <2>2. (q - s) * n \in Nat
    BY <2>1, ProductNat
  <2>3. q * n = (s * n) + ((q - s) * n)
    BY <1>1, <2>1
  <2>4. t >= s * n
    BY <1>1, <1>2, <2>2, <2>3
  <2> QED BY <1>3, <2>4 DEF q
<1>4. CASE ~(q >= s)
  <2>1. s - (q + 1) \in Nat
    BY <1>1, <1>4
  <2>2. (s - (q + 1)) * n \in Nat
    BY <2>1, ProductNat
  <2>3. s * n = (q * n) + n + ((s - (q + 1)) * n)
    BY <1>1, <2>1
  <2>4. t < s * n
    BY <1>1, <1>2, <2>2, <2>3
  <2> QED BY <1>2, <1>4, <2>4 DEF q
<1> QED BY <1>3, <1>4

(* What the DMA finds is due.                                              *)
LEMMA DueInPad ==
  ASSUME NEW p \in Pde, NEW stop \in Nat, NEW single \in Nat \ {0}, Laid(p, stop, single),
         NEW t \in Nat, p.pending, t >= stop * p.n
  PROVE  p.pad[(t % p.n) + 1] = Due(p, stop, single, t)
<1>1. p.n \in Nat \ {0}
  BY LaidFacts
<1>2. t \div p.n >= stop
  BY <1>1, DivAtLeast
<1>3. (t % p.n) + 1 \in 1..p.n
  <2> DEFINE r == t % p.n
  <2>1. t \in Int
    OBVIOUS
  <2>2. r \in 0..(p.n - 1)
    BY <1>1, <2>1, ModRange
  <2> HIDE DEF r
  <2>3. r + 1 \in 1..p.n
    BY <1>1, <2>2
  <2> QED BY <2>3 DEF r
<1> DEFINE i == (t % p.n) + 1
<1>4. p.pad[i] = <<Order(p)[i], (stop - 1) % single>>
  <2>1. Ending(p, stop, single)
    BY DEF Laid
  <2>2. i \in 1..p.n
    BY <1>3
  <2> HIDE DEF i
  <2> QED BY <2>1, <2>2 DEF Ending
<1>5. Due(p, stop, single, t) = <<Order(p)[i], (stop - 1) % single>>
  BY <1>2 DEF Due
<1> QED BY <1>4, <1>5

LEMMA DueInRing ==
  ASSUME NEW p \in Pde, NEW stop \in Nat, NEW single \in Nat \ {0}, Laid(p, stop, single),
         NEW t \in Nat, p.pending => t < stop * p.n
  PROVE  p.cells[t % p.ring] = Due(p, stop, single, t)
<1>1. p.n \in Nat \ {0}
  BY LaidFacts
<1>2. PICK k \in Nat \ {0} : p.ring = k * single * p.n
  BY DEF Laid
<1> DEFINE r == t % p.ring
<1>3. r \in 0..(p.ring - 1) /\ r % p.n = t % p.n /\ (r \div p.n) % single = (t \div p.n) % single
  BY <1>1, <1>2, RingCycles
<1> HIDE DEF r
<1>4. p.cells[r] = <<Order(p)[(r % p.n) + 1], (r \div p.n) % single>>
  BY <1>3 DEF Laid
<1>5. ~(p.pending /\ t \div p.n >= stop)
  <2>1. SUFFICES ASSUME p.pending, t \div p.n >= stop PROVE FALSE
    OBVIOUS
  <2>2. t >= stop * p.n
    BY <1>1, <2>1, DivAtLeast
  <2>3. stop * p.n \in Nat
    BY <1>1, ProductNat
  <2> QED BY <2>1, <2>2, <2>3
<1>6. Due(p, stop, single, t) = <<Order(p)[(t % p.n) + 1], (t \div p.n) % single>>
  BY <1>5 DEF Due
<1>7. p.cells[r] = Due(p, stop, single, t)
  BY <1>3, <1>4, <1>6
<1> QED BY <1>7 DEF r
-----------------------------------------------------------------------------
(* One sample further.                                                     *)
LEMMA TakeInPad ==
  ASSUME NEW p \in Pde, NEW stop \in Nat, NEW single \in Nat \ {0}, Laid(p, stop, single),
         Padded(p), NEW m \in Fed, NEW t \in Nat, Takes(p, m, stop, t), m.inPad,
         NEW q, q = Fetch(p, m)
  PROVE  q.fifo = Append(m.fifo, Due(p, stop, single, t)) /\ Takes(p, q, stop, t + 1)
<1> DEFINE fi == Append(m.fifo, p.pad[m.at + 1])
           a == (m.at + 1) % Len(p.pad)
<1>1. q = [m EXCEPT !.fifo = fi, !.at = a]
  BY DEF Fetch
<1> HIDE DEF fi, a
<1>2. q.fifo = fi /\ q.at = a /\ q.inPad
  BY <1>1 DEF Fed
<1>3. p.pending /\ t >= stop * p.n /\ m.at = t % p.n
  BY DEF Takes
<1>4. p.pad[m.at + 1] = Due(p, stop, single, t)
  BY <1>3, DueInPad
<1>5. p.n \in Nat \ {0} /\ Len(p.pad) = p.n
  BY LaidFacts DEF Padded
<1>6. a = (t + 1) % p.n
  <2>1. a = ((t % p.n) + 1) % p.n
    BY <1>3, <1>5 DEF a
  <2>2. ((t % p.n) + 1) % p.n = (t + 1) % p.n
    BY <1>5, NextMod
  <2> QED BY <2>1, <2>2
<1>7. t + 1 >= stop * p.n
  <2>1. stop * p.n \in Nat
    BY <1>5, ProductNat
  <2> QED BY <1>3, <2>1
<1>8. Takes(p, q, stop, t + 1)
  BY <1>2, <1>3, <1>6, <1>7 DEF Takes
<1> QED BY <1>2, <1>4, <1>8 DEF fi

(* The next block begins where the last one ended, or the ring again.      *)
LEMMA TakeNextBlock ==
  ASSUME NEW p \in Pde, NEW stop \in Nat, NEW single \in Nat \ {0}, Laid(p, stop, single),
         NEW m \in Fed, NEW t \in Nat, Takes(p, m, stop, t), ~m.inPad,
         m.at + 1 = m.end, ~m.toPad,
         NEW q \in Fed, ~q.inPad, NEW l, l = Load(p, NextBlock(p, m)),
         q.at = l.at, q.end = l.end, q.toPad = l.toPad
  PROVE  Takes(p, q, stop, t + 1)
<1> DEFINE b == NextBlock(p, m)
           f == FinalBlock(p)
<1>1. /\ p.n \in Nat \ {0} /\ p.ring \in Nat \ {0} /\ Block \in Nat \ {0}
      /\ p.pending => p.last \in 1..p.ring /\ p.last = stop * p.n
  BY LaidFacts
<1>2. /\ p.pending => t < stop * p.n
      /\ m.at = t % p.ring /\ Within(p, m)
  BY DEF Takes
<1>3. /\ m.end \in Nat /\ m.end <= p.ring /\ m.at \in Nat
      /\ m.end = p.ring \/ \E k \in Nat : m.end = k * Block
      /\ p.pending => m.end <= f * Block
  BY <1>2 DEF Within, Fed
<1>4. ASSUME p.pending PROVE f \in Nat /\ f * Block < p.last
  <2>1. p.last - 1 \in Nat /\ p.last # 0
    BY <1>1, <1>4
  <2>2. f = (p.last - 1) \div Block
    BY <2>1 DEF FinalBlock
  <2>3. f \in Nat /\ f * Block <= p.last - 1
    BY <1>1, <2>1, <2>2, DivNat
  <2>4. f * Block \in Nat
    BY <1>1, <2>3, ProductNat
  <2> HIDE DEF f
  <2> QED BY <1>1, <1>4, <2>3, <2>4
<1>5. ASSUME p.pending PROVE m.end < p.last /\ m.end < p.ring
  <2>1. f * Block \in Nat /\ f * Block < p.last /\ m.end <= f * Block
    BY <1>1, <1>3, <1>4, <1>5, ProductNat
  <2> HIDE DEF f
  <2> QED BY <1>1, <1>3, <1>5, <2>1
<1>6. /\ b \in Nat /\ b * Block = (t + 1) % p.ring
      /\ p.pending => b <= f
  <2>1. CASE m.end = p.ring
    <3>1. b = 0 /\ ~p.pending
      BY <1>5, <2>1, <1>1 DEF NextBlock
    <3>2. (t + 1) % p.ring = 0
      BY <1>1, <1>2, <2>1, NextMod
    <3>3. 0 * Block = 0
      BY <1>1
    <3> HIDE DEF b
    <3> QED BY <3>1, <3>2, <3>3
  <2>2. CASE m.end # p.ring
    <3>1. PICK k \in Nat : m.end = k * Block
      BY <1>3, <2>2
    <3>2. m.end \div Block = k
      <4>1. m.end \in Int /\ k \in Int /\ 0 \in 0..(Block - 1) /\ m.end = (k * Block) + 0
        <5>1. k * Block \in Nat
          BY <1>1, ProductNat
        <5> QED BY <1>1, <3>1, <5>1
      <4> QED BY <1>1, <4>1, DivUnique
    <3>3. b = k
      BY <2>2, <3>2 DEF NextBlock
    <3>4. (t + 1) % p.ring = m.end
      <4>1. (t % p.ring) + 1 < p.ring
        BY <1>1, <1>2, <1>3, <2>2
      <4> QED BY <1>1, <1>2, <4>1, NextMod
    <3>5. ASSUME p.pending PROVE k <= f
      <4>1. f \in Nat /\ k * Block <= f * Block
        BY <1>3, <1>4, <3>1, <3>5
      <4> HIDE DEF f
      <4>2. SUFFICES ASSUME f < k PROVE FALSE
        BY <4>1
      <4>3. k - f \in Nat \ {0} /\ f * Block \in Nat
        BY <1>1, <4>1, <4>2, ProductNat
      <4>4. (k - f) * Block \in Nat \ {0}
        BY <1>1, <4>3, ProductPos
      <4>5. k * Block = (f * Block) + ((k - f) * Block)
        BY <1>1, <4>1, <4>3
      <4> QED BY <4>1, <4>3, <4>4, <4>5
    <3> HIDE DEF b
    <3> QED BY <3>1, <3>3, <3>4, <3>5
  <2> QED BY <2>1, <2>2
<1>7. b * Block < p.ring
  <2> DEFINE r == (t + 1) % p.ring
  <2>1. t + 1 \in Int
    OBVIOUS
  <2>2. r \in 0..(p.ring - 1)
    BY <1>1, <2>1, ModRange
  <2> HIDE DEF r
  <2>3. r < p.ring
    BY <1>1, <2>2
  <2> QED BY <1>6, <2>3 DEF r
<1>8. q.at = b * Block
  BY <1>6, LoadFacts
<1>9. Within(p, q)
  BY <1>6, <1>7, <1>8, LoadWithin
<1>10. ASSUME p.pending PROVE t + 1 < stop * p.n
  <2>1. t % p.ring = t
    <3>1. t < p.ring /\ t \in Int
      BY <1>1, <1>2, <1>10
    <3>2. t \in 0..(p.ring - 1) /\ 0 \in Int /\ t = (0 * p.ring) + t
      BY <1>1, <3>1
    <3> QED BY <1>1, <3>1, <3>2, DivUnique
  <2> QED BY <1>1, <1>2, <1>3, <1>5, <1>10, <2>1
<1> QED BY <1>6, <1>8, <1>9, <1>10 DEF Takes

LEMMA TakeInRing ==
  ASSUME NEW p \in Pde, NEW stop \in Nat, NEW single \in Nat \ {0}, Laid(p, stop, single),
         Padded(p), NEW m \in Fed, Feeds(p, m), NEW t \in Nat, Takes(p, m, stop, t), ~m.inPad,
         NEW q, q = Fetch(p, m)
  PROVE  q.fifo = Append(m.fifo, Due(p, stop, single, t)) /\ Takes(p, q, stop, t + 1)
<1> DEFINE fi == Append(m.fifo, p.cells[m.at])
           r == [m EXCEPT !.fifo = fi, !.at = m.at + 1]
           next == Load(p, NextBlock(p, m))
<1>1. q = IF r.at < r.end THEN r
          ELSE IF r.toPad THEN [r EXCEPT !.at = 0, !.inPad = TRUE]
          ELSE [r EXCEPT !.at = next.at, !.end = next.end, !.toPad = next.toPad]
  BY DEF Fetch, NextBlock
<1> HIDE DEF fi, next
<1>2. /\ r.at = m.at + 1 /\ r.end = m.end /\ r.toPad = m.toPad /\ r.fifo = fi /\ ~r.inPad
      /\ r = [m EXCEPT !.fifo = fi, !.at = m.at + 1]
  BY DEF Fed
<1> HIDE DEF r
<1>3. /\ p.pending => t < stop * p.n
      /\ m.at = t % p.ring /\ Within(p, m)
  BY DEF Takes
<1>4. fi = Append(m.fifo, Due(p, stop, single, t))
  BY <1>3, DueInRing DEF fi
<1>5. /\ p.n \in Nat \ {0} /\ p.ring \in Nat \ {0}
      /\ p.pending => p.last \in 1..p.ring /\ p.last = stop * p.n
  BY LaidFacts
<1>6. /\ m.at \in Nat /\ m.end \in Nat /\ m.at < m.end
      /\ m.toPad => p.pending /\ m.end = p.last
      /\ ~m.toPad => m.end <= p.ring
  BY <1>3 DEF Within, Fed
<1>7. q \in Fed
  BY FetchFacts
<1>8. ASSUME p.pending PROVE t % p.ring = t
  <2>1. t < p.ring /\ t \in Int
    BY <1>3, <1>5, <1>8
  <2>2. t \in 0..(p.ring - 1) /\ 0 \in Int /\ t = (0 * p.ring) + t
    BY <1>5, <2>1
  <2> QED BY <1>5, <2>1, <2>2, DivUnique
<1>9. m.end <= p.ring
  BY <1>5, <1>6
<1>10. CASE m.at + 1 < m.end
  <2>1. q = r
    BY <1>1, <1>2, <1>10
  <2>2. (t + 1) % p.ring = m.at + 1
    <3>1. (t % p.ring) + 1 < p.ring
      BY <1>3, <1>5, <1>6, <1>9, <1>10
    <3> QED BY <1>3, <1>5, <3>1, NextMod
  <2>3. Within(p, q)
    <3>1. q.at < q.end /\ q.end = m.end /\ q.toPad = m.toPad
      BY <1>2, <1>10, <2>1
    <3> QED BY <1>3, <3>1 DEF Within
  <2>4. ASSUME p.pending PROVE t + 1 < stop * p.n
    <3>1. m.end <= p.last
      <4>1. CASE m.toPad
        BY <1>5, <1>6, <2>4, <4>1
      <4>2. CASE ~m.toPad
        <5>1. m.end <= FinalBlock(p) * Block
          BY <1>3, <2>4, <4>2 DEF Within
        <5>2. FinalBlock(p) * Block <= p.last - 1 /\ FinalBlock(p) * Block \in Nat
          <6>1. p.last - 1 \in Nat /\ p.last # 0
            BY <1>5, <2>4
          <6>2. Block \in Nat \ {0}
            BY LaidFacts
          <6>3. FinalBlock(p) = (p.last - 1) \div Block
            BY <6>1 DEF FinalBlock
          <6> QED BY <6>1, <6>2, <6>3, DivNat, ProductNat
        <5> DEFINE x == FinalBlock(p) * Block
        <5> HIDE DEF x
        <5>3. m.end <= x /\ x <= p.last - 1 /\ x \in Nat
          BY <5>1, <5>2 DEF x
        <5> QED BY <1>5, <1>6, <2>4, <5>3
      <4> QED BY <4>1, <4>2
    <3> QED BY <1>3, <1>5, <1>6, <1>8, <1>10, <2>4, <3>1
  <2>5. Takes(p, q, stop, t + 1)
    BY <1>2, <2>1, <2>2, <2>3, <2>4 DEF Takes
  <2> QED BY <1>2, <1>4, <2>1, <2>5
<1>11. CASE ~(m.at + 1 < m.end) /\ m.toPad
  <2>1. q = [m EXCEPT !.fifo = fi, !.at = 0, !.inPad = TRUE]
    BY <1>1, <1>2, <1>11
  <2>2. q.fifo = fi /\ q.at = 0 /\ q.inPad
    BY <2>1 DEF Fed
  <2>3. p.pending /\ t + 1 = stop * p.n
    BY <1>3, <1>5, <1>6, <1>8, <1>11
  <2>4. (t + 1) % p.n = 0
    <3>1. t + 1 \in Int /\ stop \in Int /\ 0 \in 0..(p.n - 1) /\ t + 1 = (stop * p.n) + 0
      BY <1>5, <2>3
    <3> QED BY <1>5, <3>1, DivUnique
  <2>5. t + 1 >= stop * p.n
    BY <2>3
  <2>6. Takes(p, q, stop, t + 1)
    BY <2>2, <2>3, <2>4, <2>5 DEF Takes
  <2> QED BY <1>4, <2>2, <2>6
<1>12. CASE ~(m.at + 1 < m.end) /\ ~m.toPad
  <2>1. q = [m EXCEPT !.fifo = fi, !.at = next.at, !.end = next.end, !.toPad = next.toPad]
    BY <1>1, <1>2, <1>12
  <2>2. /\ q.fifo = fi /\ q.at = next.at /\ q.end = next.end /\ q.toPad = next.toPad
        /\ ~q.inPad
    BY <2>1 DEF Fed
  <2>3. m.at + 1 = m.end
    BY <1>6, <1>12
  <2>4. Takes(p, q, stop, t + 1)
    BY <1>7, <1>12, <2>2, <2>3, TakeNextBlock DEF next
  <2> QED BY <1>4, <2>2, <2>4
<1> QED BY <1>10, <1>11, <1>12

(* What dacArm and the board's refills keep: the FIFO has what is due.     *)
LEMMA FetchPlays ==
  ASSUME NEW p \in Pde, NEW stop \in Nat, NEW single \in Nat \ {0}, Laid(p, stop, single),
         Padded(p), NEW m \in Fed, Feeds(p, m), NEW u \in Nat, Plays(p, m, stop, single, u),
         NEW q, q = Fetch(p, m)
  PROVE  Plays(p, q, stop, single, u)
<1> DEFINE L == Len(m.fifo)
           t == (u * p.n) + L
           x == Due(p, stop, single, t)
<1>1. L \in Nat /\ p.n \in Nat \ {0} /\ m.fifo \in Seq(Samples) /\ u * p.n \in Nat
  <2>1. p.n \in Nat \ {0} /\ m.fifo \in Seq(Samples)
    BY LaidFacts DEF Fed
  <2> QED BY <2>1, ProductNat
<1>2. t \in Nat
  BY <1>1
<1>3. /\ Takes(p, m, stop, t)
      /\ \A i \in 1..L : m.fifo[i] = Due(p, stop, single, (u * p.n) + (i - 1))
  BY DEF Plays
<1> HIDE DEF t
<1>4. q.fifo = Append(m.fifo, x) /\ Takes(p, q, stop, t + 1)
  BY <1>2, <1>3, TakeInPad, TakeInRing
<1>5. Len(q.fifo) = L + 1 /\ \A i \in 1..(L + 1) : q.fifo[i] = IF i <= L THEN m.fifo[i] ELSE x
  <2> HIDE DEF x
  <2> QED BY <1>1, <1>4, AppendProperties
<1>6. t + 1 = (u * p.n) + (L + 1)
  BY <1>1 DEF t
<1>7. ASSUME NEW i \in 1..(L + 1)
      PROVE  q.fifo[i] = Due(p, stop, single, (u * p.n) + (i - 1))
  <2>1. CASE i <= L
    <3>1. i \in 1..L
      BY <1>1, <2>1
    <3> QED BY <1>3, <1>5, <2>1, <3>1
  <2>2. CASE ~(i <= L)
    <3>1. i - 1 = L /\ i = L + 1
      BY <1>1, <2>2
    <3>2. q.fifo[i] = x
      BY <1>5, <2>2
    <3> QED BY <3>1, <3>2 DEF t
  <2> QED BY <2>1, <2>2
<1> QED BY <1>4, <1>5, <1>6, <1>7 DEF Plays

LEMMA FetchedPlays ==
  ASSUME NEW p \in Pde, NEW stop \in Nat, NEW single \in Nat \ {0}, Laid(p, stop, single),
         Padded(p), NEW m \in Fed, Feeds(p, m), NEW u \in Nat, Plays(p, m, stop, single, u),
         NEW n \in Nat, NEW g, Fetched(p, m, n, g), NEW k \in 0..n
  PROVE  Plays(p, g[k], stop, single, u)
<1> DEFINE T == {i \in 0..n : ~Plays(p, g[i], stop, single, u)}
<1>1. SUFFICES ASSUME T # {} PROVE FALSE
  OBVIOUS
<1>2. PICK i \in T : \A y \in T : i <= y
  <2>1. T \in SUBSET Nat
    OBVIOUS
  <2> HIDE DEF T
  <2> QED BY <1>1, <2>1, LeastNatural
<1>3. i \in 0..n /\ ~Plays(p, g[i], stop, single, u)
  BY <1>2
<1>4. g[i] = IF i = 0 THEN m ELSE Fetch(p, g[i - 1])
  BY <1>3 DEF Fetched
<1>5. i # 0
  BY <1>3, <1>4
<1>6. i - 1 \in 0..n /\ i - 1 \notin T
  <2> HIDE DEF T
  <2> QED BY <1>2, <1>3, <1>5
<1>7. Plays(p, g[i - 1], stop, single, u)
  BY <1>6
<1>8. g[i - 1] \in Fed /\ Feeds(p, g[i - 1])
  BY <1>6, FetchedFacts
<1> HIDE DEF T
<1>9. Plays(p, g[i], stop, single, u)
  BY <1>4, <1>5, <1>7, <1>8, FetchPlays
<1> QED BY <1>3, <1>9

LEMMA RefillPlays ==
  ASSUME NEW p \in Pde, NEW stop \in Nat, NEW single \in Nat \ {0}, Laid(p, stop, single),
         Padded(p), NEW m \in Fed, Feeds(p, m), NEW u \in Nat, Plays(p, m, stop, single, u),
         Len(m.fifo) <= FifoDepth, NEW q, q = Refill(p, m)
  PROVE  Plays(p, q, stop, single, u)
<1> DEFINE g == CHOOSE g : Fetched(p, m, FifoDepth, g)
           k == FifoDepth - Len(m.fifo)
<1>1. FifoDepth \in Nat
  BY DacAssumption
<1>2. Fetched(p, m, FifoDepth, g)
  BY <1>1, HasFetched
<1>3. k \in 0..FifoDepth
  <2>1. Len(m.fifo) \in Nat
    BY DEF Fed
  <2> QED BY <1>1, <2>1
<1>4. q = g[k]
  BY DEF Refill, Fetched
<1> HIDE DEF g, k
<1> QED BY <1>1, <1>2, <1>3, <1>4, FetchedPlays
-----------------------------------------------------------------------------
(* An update takes the sample each channel is due.                         *)
LEMMA UpdatePlays ==
  ASSUME DacInv, BoardUpdate, Playing(pde, board, hist)
  PROVE  pde' = pde /\ hist'.bad = hist.bad /\ Playing(pde', board', hist')
<1> DEFINE e == InOrder(pde.enabled)
           bad == hist.bad \/ \E i \in 1..Len(e) : board.fifo[i] # Wanted(e[i], hist.updates)
           n == pde.n
           u == hist.updates
           ff == SubSeq(board.fifo, Len(e) + 1, Len(board.fifo))
           m == [board EXCEPT !.count = (@ + 1) % Word, !.fifo = ff]
           due(t) == Due(pde, hist.stop, hist.single, t)
<1>1. /\ pde \in Pde /\ board \in Fed /\ hist \in History /\ pde' = pde /\ pde.dma
  BY DEF BoardUpdate, DacInv, DacTypes
<1>2. /\ hist.stop \in Nat /\ hist.single \in Nat \ {0} /\ u \in Nat /\ hist.bad \in BOOLEAN
      /\ Audible(pde) /\ Laid(pde, hist.stop, hist.single)
      /\ Plays(pde, board, hist.stop, hist.single, u)
  BY <1>1 DEF Playing, History
<1>3. /\ Padded(pde) /\ Feeds(pde, board) /\ Len(board.fifo) = FifoDepth /\ FifoDepth \in Nat
  BY <1>1, DacAssumption DEF DacInv, Fetching
<1>4. /\ n \in Nat \ {0} /\ Len(e) = n
  BY <1>1, <1>2, LaidFacts DEF Order
<1>5. n <= FifoDepth
  <2>1. pde.enabled \in SUBSET Chans /\ Chans \in SUBSET (0..Digital) /\ n = Cardinality(pde.enabled)
    BY <1>1, <1>2, DacAssumption DEF Pde, Laid
  <2>2. /\ Cardinality(pde.enabled) <= Cardinality(Chans) /\ Cardinality(Chans) \in Nat
    BY <2>1, ChannelSet, FS_Subset
  <2>3. Cardinality(Chans) <= FifoDepth
    BY DacAssumption
  <2> QED BY <1>3, <1>4, <2>1, <2>2, <2>3
<1>6. \A i \in 1..FifoDepth : board.fifo[i] = due((u * n) + (i - 1))
  BY <1>2, <1>3 DEF Plays
<1>7. ASSUME NEW i \in 1..n PROVE board.fifo[i] = Wanted(e[i], u)
  <2> DEFINE t == (u * n) + (i - 1)
  <2>1. t \in Int /\ u \in Int /\ i - 1 \in 0..(n - 1)
    <3>1. u * n \in Nat
      BY <1>2, <1>4, ProductNat
    <3> HIDE DEF n, u
    <3> QED BY <1>2, <1>4, <3>1
  <2>2. t % n = i - 1 /\ t \div n = u
    <3> HIDE DEF n, u
    <3> QED BY <1>4, <2>1, DivUnique
  <2>3. board.fifo[i] = due(t)
    <3>1. i \in 1..FifoDepth
      BY <1>3, <1>4, <1>5
    <3> QED BY <1>6, <3>1
  <2>4. (t % n) + 1 = i
    BY <1>4, <2>2
  <2> HIDE DEF t
  <2>5. due(t) = <<e[i], (IF pde.pending /\ u >= hist.stop THEN hist.stop - 1 ELSE u) % hist.single>>
    BY <2>2, <2>4 DEF Due, Order
  <2> QED BY <2>3, <2>5 DEF Wanted
<1>8. bad = hist.bad
  <2>1. ~\E i \in 1..Len(e) : board.fifo[i] # Wanted(e[i], hist.updates)
    BY <1>4, <1>7
  <2> QED BY <1>2, <2>1
<1>9. hist' = [hist EXCEPT !.updates = u + 1, !.bad = hist.bad]
  <2>1. hist' = [hist EXCEPT !.updates = hist.updates + 1, !.bad = bad]
    BY DEF BoardUpdate
  <2> HIDE DEF bad
  <2> QED BY <1>8, <2>1
<1> HIDE DEF bad
<1>10. /\ hist'.updates = u + 1 /\ hist'.bad = hist.bad
       /\ hist'.stop = hist.stop /\ hist'.single = hist.single
  BY <1>1, <1>9 DEF History
<1>11. board' = Refill(pde, m)
  BY DEF BoardUpdate
<1>12. /\ ff \in Seq(Samples) /\ Len(ff) = FifoDepth - n
       /\ \A j \in 1..(FifoDepth - n) : ff[j] = board.fifo[n + j]
  <2> DEFINE f == board.fifo
             a == n + 1
  <2>1. f \in Seq(Samples) /\ Len(f) = FifoDepth
    BY <1>1, <1>3 DEF Fed
  <2>2. a \in 1..(Len(f) + 1) /\ Len(f) \in (a - 1)..Len(f)
    BY <1>3, <1>4, <1>5, <2>1
  <2>3. /\ SubSeq(f, a, Len(f)) \in Seq(Samples)
        /\ Len(SubSeq(f, a, Len(f))) = IF a <= Len(f) THEN Len(f) - a + 1 ELSE 0
        /\ \A j \in 1..(Len(f) - a + 1) : SubSeq(f, a, Len(f))[j] = f[a + j - 1]
    <3> HIDE DEF f, a
    <3> QED BY <2>1, <2>2, SubSeqProperties
  <2>4. (IF a <= Len(f) THEN Len(f) - a + 1 ELSE 0) = FifoDepth - n
    BY <1>3, <1>4, <1>5, <2>1
  <2>5. Len(f) - a + 1 = FifoDepth - n
    BY <1>3, <1>4, <2>1
  <2>6. ff = SubSeq(f, a, Len(f))
    BY <1>4
  <2>7. \A j \in 1..(FifoDepth - n) : a + j - 1 = n + j
    BY <1>3, <1>4
  <2> HIDE DEF f, a, n, ff
  <2>8. \A j \in 1..(FifoDepth - n) : ff[j] = f[n + j]
    BY <2>3, <2>5, <2>6, <2>7
  <2> QED BY <2>3, <2>4, <2>6, <2>8 DEF f
<1> DEFINE ct == (board.count + 1) % Word
<1>13. ct \in Nat
  <2>1. Word \in Nat \ {0} /\ board.count + 1 \in Int
    BY <1>1, DacAssumption DEF Fed
  <2>2. ct \in 0..(Word - 1)
    BY <2>1, ModRange
  <2> QED BY <2>1, <2>2
<1>14. /\ m \in Fed /\ m.at = board.at /\ m.end = board.end /\ m.toPad = board.toPad
       /\ m.inPad = board.inPad /\ m.fifo = ff
  <2>1. m = [board EXCEPT !.count = ct, !.fifo = ff]
    BY <1>1 DEF Fed
  <2> HIDE DEF m, ct, ff
  <2> QED BY <1>1, <1>12, <1>13, <2>1 DEF Fed
<1> HIDE DEF m, ff
<1>15. Feeds(pde, m)
  BY <1>3, <1>14 DEF Feeds
<1>16. Plays(pde, m, hist.stop, hist.single, u + 1)
  <2>1. ((u + 1) * n) = (u * n) + n /\ u * n \in Nat
    <3>1. u * n \in Nat
      BY <1>2, <1>4, ProductNat
    <3> HIDE DEF n, u
    <3>2. (u + 1) * n = (u * n) + n
      BY <1>2, <1>4
    <3> QED BY <3>1, <3>2
  <2>2. ((u + 1) * n) + Len(m.fifo) = (u * n) + Len(board.fifo)
    <3> DEFINE v == u * n
               w == (u + 1) * n
    <3>1. v \in Nat /\ w = v + n
      BY <2>1
    <3> HIDE DEF v, w
    <3>2. w + (FifoDepth - n) = v + FifoDepth
      BY <1>3, <1>4, <3>1
    <3> QED BY <1>3, <1>12, <1>14, <3>2 DEF v, w
  <2>3. Takes(pde, board, hist.stop, (u * n) + Len(board.fifo))
    BY <1>2 DEF Plays
  <2>4. Takes(pde, m, hist.stop, ((u + 1) * n) + Len(m.fifo))
    BY <1>14, <2>2, <2>3 DEF Takes, Within
  <2>5. ASSUME NEW j \in 1..Len(m.fifo)
        PROVE  m.fifo[j] = due(((u + 1) * n) + (j - 1))
    <3>1. j \in 1..(FifoDepth - n)
      BY <1>12, <1>14
    <3>2. n + j \in 1..FifoDepth /\ (n + j) - 1 = n + (j - 1)
      BY <1>3, <1>4, <1>5, <3>1
    <3>3. m.fifo[j] = due((u * n) + ((n + j) - 1))
      BY <1>6, <1>12, <1>14, <3>1, <3>2
    <3>4. (u * n) + ((n + j) - 1) = ((u + 1) * n) + (j - 1)
      <4> DEFINE v == u * n
                 w == (u + 1) * n
      <4>1. v \in Nat /\ w = v + n
        BY <2>1
      <4> HIDE DEF v, w
      <4>2. v + ((n + j) - 1) = w + (j - 1)
        BY <1>3, <1>4, <3>1, <4>1
      <4> QED BY <4>2 DEF v, w
    <3> QED BY <3>3, <3>4
  <2> QED BY <2>4, <2>5 DEF Plays
<1>17. Plays(pde, board', hist.stop, hist.single, u + 1)
  <2>1. Len(m.fifo) <= FifoDepth /\ u + 1 \in Nat
    BY <1>2, <1>3, <1>4, <1>5, <1>12, <1>14
  <2> QED BY <1>1, <1>2, <1>3, <1>11, <1>14, <1>15, <1>16, <2>1, RefillPlays
<1> QED BY <1>1, <1>2, <1>10, <1>17 DEF Playing
-----------------------------------------------------------------------------
(* dacArm lays the waveform out.                                           *)
Ready(p) ==
  /\ Owned(p) /\ SetupError(p) = "None" /\ Clean(p) /\ p.dmaed = 0

(* The channels that are put out, each with a transfer of one length.      *)
Even(p, S) ==
  /\ S = Waves(p, "static") /\ S # {} /\ p.single > 0
  /\ \A c \in S : p.chan[c].mdl /\ p.chan[c].buf /\ p.chan[c].size = p.single

LEMMA SetupStatic ==
  ASSUME NEW p \in Pde, Ready(p), NEW q, q = SetupBuffer(p), NEW S, S = Chans \ Waves(p, "voltage")
  PROVE  /\ q \in Pde /\ Padded(q) /\ ~q.dynamic /\ ~q.cut /\ ~q.pending
         /\ Even(q, S) /\ \A c \in S : q.chan[c].head = 0
         /\ q.n = Cardinality(S) /\ q.n > 0 /\ q.single * q.n <= RingSamples
         /\ q.ring = (RingSamples \div (q.single * q.n)) * q.single * q.n
         /\ q.conf = p.conf /\ q.single = p.single /\ q.dmaed = 0
         /\ q.total = p.conf.stop * q.n
<1>1. \A c \in S : /\ c \in Chans /\ p.chan[c].mode = "static" /\ p.chan[c].mdl
                   /\ p.chan[c].head = 0 /\ p.chan[c].size = p.single
  BY DEF Ready, Clean
<1>2. Waves(p, "static") = S /\ Static(p) = S /\ Dynamic(p) = {}
  <2>1. \A c \in Chans : c \in S <=> p.chan[c].mode # "voltage"
    BY DEF Waves
  <2>2. \A c \in Chans : p.chan[c].mode = "static" <=> c \in S
    BY <1>1, <2>1
  <2>3. \A c \in Chans : p.chan[c].mode # "dynamic"
    BY <1>1, <2>1
  <2>4. Waves(p, "static") = S
    BY <2>2 DEF Waves
  <2>5. Waves(p, "dynamic") = {}
    BY <2>3 DEF Waves
  <2> QED BY <1>1, <2>4, <2>5 DEF Static, Dynamic
<1>3. NumWaves(p) = Cardinality(S) /\ NumWaves(p) # 0
  BY <1>2, WavesCounted, SetupOk DEF Ready
<1>4. /\ q \in Pde /\ Padded(q) /\ q.n = NumWaves(p) /\ q.chan = p.chan
      /\ SameAsked(p, q) /\ q.dmaed = p.dmaed /\ ~q.dynamic /\ ~q.pending
      /\ q.single \in Nat \ {0} /\ q.single * q.n <= RingSamples
  BY <1>2, SetupBufferFacts DEF Ready
<1>5. q.conf = p.conf /\ q.single = p.single /\ q.dmaed = 0
  BY <1>4 DEF SameAsked, Ready
<1>6. /\ ~q.cut /\ q.total = p.conf.stop * q.n
      /\ q.ring = (RingSamples \div (q.single * q.n)) * q.single * q.n
  <2> DEFINE n == NumWaves(p)
             r == [p EXCEPT !.n = n, !.first = p.chan[Transfers(p)[1]].size,
                     !.pending = FALSE, !.cut = FALSE, !.total = p.conf.stop * n,
                     !.dynamic = (Dynamic(p) # {}), !.pad = [i \in 1..n |-> Junk]]
             rg == (RingSamples \div (p.single * n)) * p.single * n
  <2>1. q = IF r.dynamic THEN [r EXCEPT !.ring = RingSamples]
            ELSE [r EXCEPT !.ring = rg]
    BY DEF SetupBuffer
  <2>2. (Dynamic(p) # {}) = FALSE
    BY <1>2
  <2>3. r.dynamic = FALSE
    BY <2>2 DEF Pde
  <2>4. q = [r EXCEPT !.ring = rg]
    BY <2>1, <2>3
  <2>5. ~q.cut /\ q.total = p.conf.stop * n /\ q.ring = rg
    BY <2>4 DEF Pde
  <2> HIDE DEF r, n
  <2>6. q.n = n
    BY <1>4 DEF n
  <2> QED BY <1>5, <2>5, <2>6
<1>7. Even(q, S)
  <2>1. S # {}
    <3>1. Cardinality({}) = 0
      BY FS_EmptySet
    <3> QED BY <1>3, <3>1
  <2>2. Waves(q, "static") = S
    BY <1>2, <1>4 DEF Waves
  <2>3. \A c \in S : p.chan[c].buf
    BY <1>1 DEF Ready, Owned
  <2> QED BY <1>1, <1>4, <1>5, <2>1, <2>2, <2>3 DEF Even
<1>8. q.n > 0
  BY <1>4, Sizes DEF Padded
<1> QED BY <1>1, <1>3, <1>4, <1>5, <1>6, <1>7, <1>8

(* A place in a period has the channel and the sample of the place in the  *)
(* stream.                                                                 *)
LEMMA PeriodRepeats ==
  ASSUME NEW n \in Nat \ {0}, NEW s \in Nat \ {0}, NEW t \in Nat
  PROVE  LET j == t % (n * s)
         IN  /\ j \in 0..((n * s) - 1) /\ j % n = t % n
             /\ j \div n = (t \div n) % s /\ j \div n \in 0..(s - 1)
<1> DEFINE z == n * s
           j == t % z
           v == j \div n
           a == t \div z
<1>1. z \in Nat \ {0}
  BY ProductPos
<1> HIDE DEF z
<1>2. j \in 0..(z - 1) /\ j % n = t % n /\ (j \div n) % s = (t \div n) % s
  <2>1. t \in Int
    OBVIOUS
  <2>2. j \in 0..(z - 1) /\ t = (z * a) + j /\ a \in Int
    BY <1>1, <2>1, ModRange
  <2> HIDE DEF j, a
  <2>3. j \in Int /\ s * a \in Int
    BY <1>1, <2>2
  <2> DEFINE y == s * a
  <2>4. t = (n * y) + j
    <3>1. (n * s) * a = n * (s * a)
      BY <2>2
    <3> QED BY <2>2, <3>1 DEF z
  <2>5. y \in Int
    BY <2>3
  <2> HIDE DEF y
  <2>6. t % n = j % n /\ t \div n = y + (j \div n)
    BY <2>3, <2>4, <2>5, ShiftMod
  <2>7. j \div n \in Int
    BY <2>3, ModRange
  <2> HIDE DEF v
  <2>8. ((s * a) + (j \div n)) % s = (j \div n) % s
    BY <2>2, <2>7, ShiftMod
  <2> QED BY <2>2, <2>6, <2>8 DEF y
<1> HIDE DEF j
<1>3. j \in Nat /\ j < z
  BY <1>1, <1>2
<1>4. v \in Nat
  BY <1>3, DivNat
<1>5. ~(v >= s)
  <2>1. v >= s <=> j >= s * n
    BY <1>3, DivAtLeast
  <2>2. s * n = z
    BY DEF z
  <2> HIDE DEF v
  <2> QED BY <1>1, <1>3, <2>1, <2>2
<1> HIDE DEF v
<1>6. v \in 0..(s - 1) /\ v \in Int /\ 0 \in Int /\ v = (0 * s) + v
  BY <1>4, <1>5
<1>7. v % s = v
  BY <1>6, DivUnique
<1> QED BY <1>2, <1>6, <1>7 DEF v, j, z

LEMMA PrimeLays ==
  ASSUME NEW p \in Pde, NEW S, S = Waves(p, "static"), p.single \in Nat \ {0},
         \A c \in S : p.chan[c].head = 0 /\ p.chan[c].size = p.single,
         p.n = Cardinality(S), p.n > 0, p.single * p.n <= RingSamples,
         p.ring = (RingSamples \div (p.single * p.n)) * p.single * p.n,
         NEW q, q = PrimeStatic(p)
  PROVE  /\ \E k \in Nat \ {0} : p.ring = k * p.single * p.n
         /\ \A t \in 0..(p.ring - 1) :
              q.cells[t] = <<InOrder(S)[(t % p.n) + 1], (t \div p.n) % p.single>>
         /\ q.cut = p.cut /\ q.pending = p.pending
<1> DEFINE w == InOrder(S)
           n == p.n
           s == p.single
           k == RingSamples \div (s * n)
           period == Period(p)
           size == Cardinality(DOMAIN period)
           cells == [i \in DOMAIN p.cells |-> IF i < Copied(p) THEN period[i % size] ELSE p.cells[i]]
           ch == [c \in Chans |-> IF p.chan[c].mode # "static" THEN p.chan[c]
                                  ELSE [p.chan[c] EXCEPT !.head = Upto(@ + p.single, MaxLen)]]
<1>1. n \in Nat \ {0} /\ s \in Nat \ {0} /\ RingSamples \in Nat \ {0}
  BY Sizes DEF Pde
<1>2. S \in SUBSET (0..Digital) /\ S \subseteq Chans
  BY DacAssumption DEF Waves
<1>3. w \in [1..n -> S] /\ Len(w) = n
  BY <1>2, Ordered
<1>4. size = n * s
  BY PeriodType
<1>5. k \in Nat \ {0} /\ p.ring = k * s * n
  <2>1. k \in Nat /\ k * s * n \in 1..RingSamples
    BY <1>1, RingOfPeriods
  <2>2. k # 0
    <3> HIDE DEF k, s, n
    <3>1. SUFFICES ASSUME k = 0 PROVE FALSE
      OBVIOUS
    <3>2. 0 * s * n = 0
      BY <1>1
    <3> QED BY <2>1, <3>1, <3>2
  <2> QED BY <2>1, <2>2
<1>6. Copied(p) = p.ring
  <2>1. Copied(p) = size * k
    BY DEF Copied
  <2> HIDE DEF k, s, n, size
  <2>2. (n * s) * k = k * s * n
    BY <1>1, <1>5
  <2> QED BY <1>4, <1>5, <2>1, <2>2
<1>7. period = [i \in 0..((n * s) - 1) |->
                  LET c == w[(i % n) + 1] IN Sample(p, c, p.chan[c].head + (i \div n))]
  BY <1>3 DEF Period
<1> HIDE DEF period, size, k
<1>8. ASSUME NEW t \in 0..(p.ring - 1)
      PROVE  cells[t] = <<w[(t % n) + 1], (t \div n) % s>>
  <2> DEFINE j == t % (n * s)
             v == j \div n
             i == (t % n) + 1
             c == w[i]
  <2>1. p.ring \in 1..RingSamples /\ t \in Nat /\ t < p.ring /\ t \in 0..(RingSamples - 1)
    BY <1>1 DEF Pde
  <2>2. p.cells \in [0..(RingSamples - 1) -> Samples]
    BY DEF Pde
  <2>3. cells[t] = period[t % size]
    BY <1>6, <2>1, <2>2
  <2>4. /\ j \in 0..((n * s) - 1) /\ j % n = t % n
        /\ v = (t \div n) % s /\ v \in 0..(s - 1)
    BY <1>1, <2>1, PeriodRepeats
  <2>5. i \in 1..n
    <3> DEFINE r == t % n
    <3>1. r \in 0..(n - 1)
      <4>1. t \in Int
        BY <2>1
      <4> QED BY <1>1, <4>1, ModRange
    <3> HIDE DEF r
    <3>2. r + 1 \in 1..n
      BY <1>1, <3>1
    <3> QED BY <3>2 DEF r
  <2>6. c \in S /\ p.chan[c].head = 0 /\ p.chan[c].size = s
    BY <1>3, <2>5
  <2>7. period[j] = Sample(p, c, p.chan[c].head + v)
    <3>1. (j % n) + 1 = i
      BY <2>4
    <3> HIDE DEF j
    <3> QED BY <1>7, <2>4, <3>1
  <2> HIDE DEF j, v, c
  <2>8. p.chan[c].head + v = v /\ v < p.chan[c].size
    BY <1>1, <2>4, <2>6
  <2>9. period[j] = <<c, v>>
    BY <2>7, <2>8 DEF Sample
  <2>10. cells[t] = period[j]
    BY <1>4, <2>3 DEF j
  <2> HIDE DEF cells
  <2> QED BY <2>4, <2>9, <2>10 DEF c
<1>9. q = [p EXCEPT !.cells = cells, !.removed = p.total, !.chan = ch]
  BY DEF PrimeStatic, period, size
<1> HIDE DEF cells, ch
<1>10. q.cells = cells /\ q.cut = p.cut /\ q.pending = p.pending
  BY <1>9 DEF Pde
<1> QED BY <1>5, <1>8, <1>10

LEMMA PadPointLast ==
  ASSUME NEW p \in Pde, p.single \in Nat \ {0}, p.conf.stop > 0
  PROVE  /\ PadPoint(p) = (p.conf.stop - 1) % p.single
         /\ PadPoint(p) \in 0..(p.single - 1)
<1> DEFINE s == p.single
           x == p.conf.stop
           r == x % s
           q == x \div s
<1>1. s \in Nat \ {0} /\ x \in Nat \ {0}
  BY DEF Pde, Conf
<1>2. PadPoint(p) = IF r = 0 THEN s - 1 ELSE r - 1
  BY DEF PadPoint
<1> HIDE DEF s, x
<1>3. r \in 0..(s - 1) /\ x = (s * q) + r /\ q \in Int
  <2>1. x \in Int
    BY <1>1
  <2> QED BY <1>1, <2>1, ModRange
<1> HIDE DEF r, q
<1>4. CASE r = 0
  <2>1. x - 1 = ((q - 1) * s) + (s - 1) /\ q - 1 \in Int /\ s - 1 \in 0..(s - 1) /\ x - 1 \in Int
    <3>1. s * q = ((q - 1) * s) + s /\ (q - 1) * s \in Int
      BY <1>1, <1>3
    <3> QED BY <1>1, <1>3, <1>4, <3>1
  <2>2. (x - 1) % s = s - 1
    BY <1>1, <2>1, DivUnique
  <2> QED BY <1>2, <1>4, <2>1, <2>2 DEF s, x
<1>5. CASE r # 0
  <2>1. x - 1 = (q * s) + (r - 1) /\ r - 1 \in 0..(s - 1) /\ x - 1 \in Int
    <3>1. s * q = q * s /\ q * s \in Int
      BY <1>1, <1>3
    <3> QED BY <1>1, <1>3, <1>5, <3>1
  <2>2. (x - 1) % s = r - 1
    BY <1>1, <1>3, <2>1, DivUnique
  <2> QED BY <1>2, <1>5, <2>1, <2>2 DEF s, x
<1> QED BY <1>4, <1>5

(* The last cycle of a counted waveform that fits the ring is all of it.   *)
LEMMA LastIsTotal ==
  ASSUME NEW p \in Pde, p.total \in Nat \ {0}, p.total <= p.ring
  PROVE  LastCycle(p) = p.total
<1>1. p.ring \in Nat \ {0}
  BY Sizes DEF Pde
<1>2. CASE p.total = p.ring
  <2>1. p.total \in Int /\ 0 \in 0..(p.ring - 1) /\ p.total = (1 * p.ring) + 0
    BY <1>1, <1>2
  <2>2. p.total % p.ring = 0
    BY <1>1, <2>1, DivUnique
  <2> QED BY <1>2, <2>2 DEF LastCycle
<1>3. CASE p.total # p.ring
  <2>1. p.total \in Int /\ p.total \in 0..(p.ring - 1) /\ p.total = (0 * p.ring) + p.total
    BY <1>1, <1>3
  <2>2. p.total % p.ring = p.total
    BY <1>1, <2>1, DivUnique
  <2> QED BY <2>2 DEF LastCycle
<1> QED BY <1>2, <1>3

LEMMA EndLays ==
  ASSUME NEW p \in Pde, NEW S, Padded(p), ~p.dynamic, ~p.cut, ~p.pending, Even(p, S),
         p.n = Cardinality(S), p.n > 0, p.total = p.conf.stop * p.n, p.dmaed = 0,
         p.conf.infinite \/ p.conf.stop > 0,
         NEW q, q = PrepareToStop(Pad(ComputePadBlockInfo(p)))
  PROVE  /\ q \in Pde /\ Carried(p, q) /\ q.cells = p.cells /\ (q.cut <=> q.pending)
         /\ q.pending =>
              /\ p.conf.stop > 0 /\ p.conf.stop * p.n <= p.ring /\ q.last = p.conf.stop * p.n
              /\ \A i \in 1..p.n : q.pad[i] = <<InOrder(S)[i], (p.conf.stop - 1) % p.single>>
<1> DEFINE a == ComputePadBlockInfo(p)
           b == Pad(a)
           w == InOrder(S)
<1>0. q = PrepareToStop(b)
  OBVIOUS
<1>1. /\ p.n \in Nat \ {0} /\ p.single \in Nat \ {0} /\ p.conf.stop \in Nat
      /\ p.conf.infinite \in BOOLEAN /\ p.total \in Nat /\ p.ring \in Nat
  BY Sizes DEF Pde, Conf, Even
<1>2. /\ a \in Pde /\ Carried(p, a) /\ a.pad = p.pad
      /\ a.cells = p.cells /\ ~a.cut /\ ~a.pending /\ a.chan = p.chan
      /\ ~p.conf.infinite => a.last = LastCycle(p)
  <2>1. a \in Pde /\ Carried(p, a) /\ a.pad = p.pad
    BY PadBlockFacts
  <2>2. CASE p.conf.infinite
    <3>1. a = p
      BY <2>2 DEF ComputePadBlockInfo
    <3> QED BY <2>1, <2>2, <3>1
  <2>3. CASE ~p.conf.infinite
    <3> DEFINE r == [p EXCEPT !.last = LastCycle(p)]
               x == p.dynamic /\ 4 * (BlockEnd(r, FinalBlock(r)) - FinalBlock(r) * Block) > p.total
    <3>1. a = [r EXCEPT !.cut = x]
      BY <2>3 DEF ComputePadBlockInfo
    <3>2. x = FALSE
      OBVIOUS
    <3> HIDE DEF x
    <3>3. a.cells = p.cells /\ ~a.cut /\ ~a.pending /\ a.chan = p.chan /\ a.last = LastCycle(p)
      BY <3>1, <3>2 DEF Pde
    <3> QED BY <2>1, <3>3
  <2> QED BY <2>2, <2>3
<1> HIDE DEF a
<1>3. /\ Padded(a) /\ ~a.dynamic /\ a.n = p.n /\ a.single = p.single /\ a.conf = p.conf
      /\ a.total = p.total /\ a.ring = p.ring /\ a.dmaed = 0 /\ Waves(a, "static") = S
  BY <1>2, CarriedPad DEF Carried, SameAsked, SameCount, Even, Waves
<1>4. b = FillPadStatic(a)
  BY <1>3 DEF Pad
<1>5. b \in Pde /\ Carried(a, b) /\ Padded(b)
  <2>1. a.n <= Cardinality(Waves(a, "static"))
    BY <1>1, <1>3
  <2> QED BY <1>1, <1>2, <1>3, <1>4, <2>1, FillPadStaticFacts
<1>6. /\ b.cells = p.cells /\ ~b.cut /\ ~b.pending /\ b.last = a.last
      /\ b.pad = [i \in 1..p.n |-> IF p.chan[w[i]].buf THEN Sample(a, w[i], PadPoint(a)) ELSE Junk]
  <2> DEFINE pd == [i \in 1..a.n |-> IF a.chan[w[i]].buf THEN Sample(a, w[i], PadPoint(a)) ELSE Junk]
  <2>1. b = [a EXCEPT !.pad = pd]
    BY <1>3, <1>4 DEF FillPadStatic
  <2> HIDE DEF pd
  <2>2. b.cells = a.cells /\ b.cut = a.cut /\ b.pending = a.pending /\ b.last = a.last /\ b.pad = pd
    BY <1>2, <2>1 DEF Pde
  <2> QED BY <1>2, <1>3, <2>2 DEF pd
<1> HIDE DEF b
<1>7. /\ ~b.dynamic /\ b.conf = p.conf /\ b.total = p.total /\ b.ring = p.ring /\ b.dmaed = 0
  BY <1>3, <1>5 DEF Carried, SameAsked, SameCount
<1>8. q \in Pde /\ Carried(b, q)
  BY <1>0, <1>5, PrepareToStopFacts
<1>9. Carried(p, q)
  BY <1>2, <1>5, <1>8, CarriedOn
<1>10. CASE p.conf.infinite \/ p.total - 0 > p.ring
  <2>1. q = b
    BY <1>0, <1>6, <1>7, <1>10 DEF PrepareToStop
  <2> QED BY <1>6, <1>8, <1>9, <2>1
<1>11. CASE ~(p.conf.infinite \/ p.total - 0 > p.ring)
  <2>1. q = [b EXCEPT !.cut = TRUE, !.pending = TRUE]
    BY <1>0, <1>6, <1>7, <1>11 DEF PrepareToStop
  <2>2. q.cut /\ q.pending /\ q.cells = p.cells /\ q.last = a.last /\ q.pad = b.pad
    BY <1>5, <1>6, <2>1 DEF Pde
  <2>3. p.conf.stop > 0 /\ p.total <= p.ring
    BY <1>1, <1>11
  <2>4. p.total \in Nat \ {0}
    <3>1. p.conf.stop \in Nat \ {0}
      BY <1>1, <2>3
    <3> QED BY <1>1, <3>1, ProductPos
  <2>5. q.last = p.conf.stop * p.n /\ p.conf.stop * p.n <= p.ring
    BY <1>2, <1>11, <2>2, <2>3, <2>4, LastIsTotal
  <2>6. ASSUME NEW i \in 1..p.n
        PROVE  q.pad[i] = <<w[i], (p.conf.stop - 1) % p.single>>
    <3>1. S \in SUBSET (0..Digital)
      BY DacAssumption DEF Even, Waves
    <3>2. w[i] \in S
      BY <3>1, Ordered
    <3>3. p.chan[w[i]].buf /\ a.chan[w[i]].size = p.single
      BY <1>2, <3>2 DEF Even
    <3>4. q.pad[i] = Sample(a, w[i], PadPoint(a))
      BY <1>6, <2>2, <3>3
    <3>5. PadPoint(a) = (p.conf.stop - 1) % p.single /\ PadPoint(a) \in 0..(p.single - 1)
      BY <1>1, <1>2, <1>3, <2>3, PadPointLast
    <3>6. PadPoint(a) < a.chan[w[i]].size
      BY <1>1, <3>3, <3>5
    <3> HIDE DEF w
    <3>7. Sample(a, w[i], PadPoint(a)) = <<w[i], PadPoint(a)>>
      BY <3>6 DEF Sample
    <3> QED BY <3>4, <3>5, <3>7
  <2> QED BY <1>8, <1>9, <2>2, <2>3, <2>5, <2>6
<1> QED BY <1>10, <1>11

LEMMA ArmLays ==
  ASSUME NEW p \in Pde, Ready(p), NEW q, q = ArmedDma(p)
  PROVE  /\ p.single \in Nat \ {0} /\ Audible(q) /\ Laid(q, p.conf.stop, p.single)
<1> DEFINE S == Chans \ Waves(p, "voltage")
           q0 == SetupBuffer(p)
           q1 == Prime(q0)
           q4 == PrepareToStop(Pad(ComputePadBlockInfo(q1)))
<1>1. q = [q4 EXCEPT !.dma = TRUE, !.enabled = S, !.pacer = (p.conf.trig = "immediate")]
  BY DEF ArmedDma
<1>2. /\ q0 \in Pde /\ Padded(q0) /\ ~q0.dynamic /\ ~q0.cut /\ ~q0.pending
      /\ Even(q0, S) /\ \A c \in S : q0.chan[c].head = 0
      /\ q0.n = Cardinality(S) /\ q0.n > 0 /\ q0.single * q0.n <= RingSamples
      /\ q0.ring = (RingSamples \div (q0.single * q0.n)) * q0.single * q0.n
      /\ q0.conf = p.conf /\ q0.single = p.single /\ q0.dmaed = 0
      /\ q0.total = p.conf.stop * q0.n
  BY SetupStatic
<1> HIDE DEF q0, S
<1>3. q0.n \in Nat \ {0} /\ q0.single \in Nat \ {0}
  <2>1. q0 \in Pde
    BY <1>2
  <2>2. q0.n \in Nat /\ q0.single \in Nat
    BY <2>1 DEF Pde
  <2>3. q0.single > 0
    BY <1>2 DEF Even
  <2> QED BY <1>2, <2>2, <2>3
<1>4. q1 = PrimeStatic(q0)
  BY <1>2 DEF Prime
<1>5. q1 \in Pde /\ Carried(q0, q1) /\ q1.pad = q0.pad
  BY <1>2, <1>3, <1>4, PrimeStaticFacts
<1>6. /\ \E k \in Nat \ {0} : q0.ring = k * q0.single * q0.n
      /\ \A t \in 0..(q0.ring - 1) :
           q1.cells[t] = <<InOrder(S)[(t % q0.n) + 1], (t \div q0.n) % q0.single>>
      /\ ~q1.cut /\ ~q1.pending
  <2>1. \A c \in S : q0.chan[c].head = 0 /\ q0.chan[c].size = q0.single
    BY <1>2 DEF Even
  <2>2. S = Waves(q0, "static")
    BY <1>2 DEF Even
  <2>3. /\ \E k \in Nat \ {0} : q0.ring = k * q0.single * q0.n
        /\ \A t \in 0..(q0.ring - 1) :
             q1.cells[t] = <<InOrder(S)[(t % q0.n) + 1], (t \div q0.n) % q0.single>>
        /\ q1.cut = q0.cut /\ q1.pending = q0.pending
    BY <1>2, <1>3, <1>4, <2>1, <2>2, PrimeLays
  <2> QED BY <1>2, <2>3
<1> HIDE DEF q1
<1>7. /\ Padded(q1) /\ ~q1.dynamic /\ q1.n = q0.n /\ q1.single = p.single /\ q1.conf = p.conf
      /\ q1.total = q0.total /\ q1.ring = q0.ring /\ q1.dmaed = 0
  BY <1>2, <1>5, CarriedPad DEF Carried, SameAsked, SameCount
<1>8. Even(q1, S)
  <2>1. SameChans(q0, q1) /\ q1.single = q0.single
    BY <1>5 DEF Carried, SameAsked
  <2>2. Waves(q1, "static") = Waves(q0, "static")
    BY <2>1, SameWaves
  <2>3. S \subseteq Chans
    BY DEF S
  <2> QED BY <1>2, <2>1, <2>2, <2>3 DEF Even, SameChans
<1>9. p.conf.infinite \/ p.conf.stop > 0
  BY DEF Ready, Clean
<1>10. /\ q4 \in Pde /\ Carried(q1, q4) /\ q4.cells = q1.cells /\ (q4.cut <=> q4.pending)
       /\ q4.pending =>
            /\ p.conf.stop > 0 /\ p.conf.stop * q0.n <= q0.ring /\ q4.last = p.conf.stop * q0.n
            /\ \A i \in 1..q0.n : q4.pad[i] = <<InOrder(S)[i], (p.conf.stop - 1) % p.single>>
  <2>1. q1.n = Cardinality(S) /\ q1.n > 0 /\ q1.total = q1.conf.stop * q1.n
        /\ (q1.conf.infinite \/ q1.conf.stop > 0)
    BY <1>2, <1>7, <1>9
  <2>2. /\ q4 \in Pde /\ Carried(q1, q4) /\ q4.cells = q1.cells /\ (q4.cut <=> q4.pending)
        /\ q4.pending =>
             /\ q1.conf.stop > 0 /\ q1.conf.stop * q1.n <= q1.ring
             /\ q4.last = q1.conf.stop * q1.n
             /\ \A i \in 1..q1.n : q4.pad[i] = <<InOrder(S)[i], (q1.conf.stop - 1) % q1.single>>
    BY <1>5, <1>6, <1>7, <1>8, <2>1, EndLays
  <2> HIDE DEF q4
  <2> QED BY <1>7, <2>2
<1> HIDE DEF q4
<1>11. /\ q.enabled = S /\ q.cells = q4.cells /\ q.cut = q4.cut /\ q.pending = q4.pending
       /\ q.last = q4.last /\ q.pad = q4.pad /\ q.n = q4.n /\ q.ring = q4.ring
       /\ q.dynamic = q4.dynamic /\ q.chan = q4.chan
  BY <1>1, <1>10 DEF Pde
<1>12. q.n = q0.n /\ q.ring = q0.ring /\ ~q.dynamic
  BY <1>7, <1>10, <1>11 DEF Carried, SameCount
<1>13. Order(q) = InOrder(S)
  BY <1>11 DEF Order
<1>14. q.pending => Ending(q, p.conf.stop, p.single)
  BY <1>10, <1>11, <1>12, <1>13 DEF Ending
<1>15. Laid(q, p.conf.stop, p.single)
  BY <1>2, <1>6, <1>10, <1>11, <1>12, <1>13, <1>14 DEF Laid
<1>16. Audible(q)
  <2>1. S = Waves(q1, "static") /\ S \subseteq Chans
    BY <1>8 DEF Even, S
  <2>2. \A c \in S : q1.chan[c].mode = "static"
    BY <2>1 DEF Waves
  <2>3. \A c \in S : q.chan[c].mode = "static"
    BY <1>10, <1>11, <2>1, <2>2 DEF Carried, SameChans
  <2> QED BY <1>11, <2>3 DEF Audible
<1> QED BY <1>2, <1>3, <1>15, <1>16

(* The board fills its FIFO from the start of the ring.                    *)
LEMMA StartPlays ==
  ASSUME NEW p \in Pde, Padded(p), NEW stop \in Nat, NEW single \in Nat \ {0},
         Laid(p, stop, single), NEW q, q = BoardStart(p)
  PROVE  Plays(p, q, stop, single, 0)
<1> DEFINE l == Load(p, 0)
           m == [InitBoard EXCEPT !.end = l.end, !.toPad = l.toPad]
<1>1. /\ l.at = 0 * Block /\ l.end \in 0..RingSamples /\ l.toPad \in BOOLEAN
      /\ ~l.toPad => l.end <= p.ring
  BY LoadFacts
<1>2. q = Refill(p, m)
  BY DEF BoardStart
<1>3. /\ p.n \in Nat \ {0} /\ p.ring \in Nat \ {0} /\ Block \in Nat \ {0}
      /\ p.pending => p.last \in 1..p.ring /\ p.last = stop * p.n
  BY LaidFacts
<1>4. InitBoard \in Fed /\ InitBoard.at = 0
  BY InitBoardFacts DEF InitBoard
<1> HIDE DEF l
<1>5. /\ m \in Fed /\ m.end = l.end /\ m.toPad = l.toPad /\ m.inPad = InitBoard.inPad
      /\ m.fifo = InitBoard.fifo /\ m.at = 0
  BY <1>1, <1>4 DEF Fed
<1> HIDE DEF m
<1>6. Feeds(p, m) /\ Len(m.fifo) = 0 /\ ~m.inPad /\ Len(m.fifo) <= FifoDepth
  BY <1>1, <1>5, InitBoardFacts DEF Feeds
<1>7. 0 * Block = 0
  BY <1>3
<1>8. ASSUME p.pending PROVE 0 <= FinalBlock(p)
  <2>1. p.last - 1 \in Nat /\ p.last # 0
    BY <1>3, <1>8
  <2>2. FinalBlock(p) = (p.last - 1) \div Block
    BY <2>1 DEF FinalBlock
  <2>3. FinalBlock(p) \in Nat
    BY <1>3, <2>1, <2>2, DivNat
  <2> QED BY <2>3
<1>9. Within(p, m)
  <2>1. m.at = 0 * Block /\ 0 * Block < p.ring /\ 0 \in Nat
    BY <1>3, <1>5, <1>7
  <2> QED BY <1>5, <1>8, <2>1, LoadWithin DEF l
<1>10. Plays(p, m, stop, single, 0)
  <2>1. (0 * p.n) + Len(m.fifo) = 0
    BY <1>3, <1>6
  <2>2. 0 % p.ring = 0
    <3>1. 0 \in Int /\ 0 \in 0..(p.ring - 1) /\ 0 = (0 * p.ring) + 0
      BY <1>3
    <3> QED BY <1>3, <3>1, DivUnique
  <2>3. Takes(p, m, stop, 0)
    BY <1>3, <1>5, <1>6, <1>9, <2>2 DEF Takes
  <2> QED BY <1>6, <2>1, <2>3 DEF Plays
<1> QED BY <1>2, <1>5, <1>6, <1>10, RefillPlays
-----------------------------------------------------------------------------
-----------------------------------------------------------------------------
(* The steps that leave the ring, its descriptors and the board alone.     *)
SameRing(p, q) ==
  /\ q.cells = p.cells /\ q.pad = p.pad /\ q.ring = p.ring /\ q.n = p.n /\ q.cut = p.cut
  /\ q.last = p.last /\ q.pending = p.pending /\ q.dynamic = p.dynamic

SamePlaces(b, d) ==
  /\ d.fifo = b.fifo /\ d.at = b.at /\ d.end = b.end /\ d.toPad = b.toPad
  /\ d.inPad = b.inPad

LEMMA StillPlaying ==
  ASSUME NEW p, NEW b, NEW h, Playing(p, b, h), NEW q, SameRing(p, q),
         q.enabled = p.enabled, Audible(q), NEW d, SamePlaces(b, d),
         NEW k, k.stop = h.stop, k.single = h.single, k.updates = h.updates
  PROVE  Playing(q, d, k)
<1>1. Order(q) = Order(p) /\ FinalBlock(q) = FinalBlock(p)
  BY DEF Order, FinalBlock, SameRing
<1>2. Laid(q, h.stop, h.single)
  BY <1>1 DEF Playing, Laid, Ending, SameRing
<1>3. ASSUME NEW t PROVE Due(q, h.stop, h.single, t) = Due(p, h.stop, h.single, t)
  BY <1>1 DEF Due, SameRing
<1>4. ASSUME NEW t, Takes(p, b, h.stop, t) PROVE Takes(q, d, h.stop, t)
  BY <1>1, <1>4 DEF Takes, Within, SameRing, SamePlaces
<1>5. Plays(q, d, h.stop, h.single, h.updates)
  BY <1>3, <1>4 DEF Playing, Plays, SameRing, SamePlaces
<1> QED BY <1>2, <1>5 DEF Playing

Silent ==
  /\ hist.clean /\ hist'.bad = hist.bad
  /\ pde'.dma =>
       /\ pde.dma /\ SameRing(pde, pde') /\ pde'.enabled = pde.enabled
       /\ \A c \in pde.enabled : pde.chan[c].mode # "voltage" => pde'.chan[c].mode # "voltage"
       /\ SamePlaces(board, board')
       /\ hist'.stop = hist.stop /\ hist'.single = hist.single /\ hist'.updates = hist.updates

LEMMA SilentStep ==
  ASSUME OutInv, hist'.clean => Silent
  PROVE  OutInv'
<1>1. SUFFICES ASSUME hist'.clean PROVE ~hist'.bad /\ (pde'.dma => Playing(pde', board', hist'))
  BY DEF OutInv
<1>2. Silent /\ ~hist.bad /\ ~hist'.bad /\ (pde.dma => Playing(pde, board, hist))
  BY <1>1 DEF Silent, OutInv
<1>3. ASSUME pde'.dma PROVE Playing(pde', board', hist')
  <2>1. /\ Playing(pde, board, hist) /\ SameRing(pde, pde') /\ pde'.enabled = pde.enabled
        /\ SamePlaces(board, board')
        /\ hist'.stop = hist.stop /\ hist'.single = hist.single
        /\ hist'.updates = hist.updates
    BY <1>2, <1>3 DEF Silent
  <2>2. Audible(pde')
    BY <1>2, <1>3, <2>1 DEF Silent, Playing, Audible
  <2> QED BY <2>1, <2>2, StillPlaying
<1> QED BY <1>2, <1>3

(* With the DMA off at the end, or nothing of the output touched.          *)
LEMMA RestedSilent ==
  ASSUME OutInv, hist' = Rested(hist), BoardRests, hist \in History,
         pde'.dma => /\ pde.dma /\ SameRing(pde, pde') /\ pde'.enabled = pde.enabled
                     /\ \A c \in Chans : pde'.chan[c].mode = pde.chan[c].mode,
         pde.enabled \subseteq Chans
  PROVE  OutInv'
<1>1. CASE pde'.dma
  <2>1. hist' = hist /\ board' = board
    BY <1>1 DEF Rested, BoardRests
  <2>2. hist'.clean => Silent
    BY <1>1, <2>1 DEF Silent, SamePlaces
  <2> QED BY <2>2, SilentStep
<1>2. CASE ~pde'.dma
  <2>1. ~hist'.clean
    BY <1>2 DEF Rested, History
  <2> QED BY <2>1 DEF OutInv
<1> QED BY <1>1, <1>2

LEMMA QuietSilent ==
  ASSUME OutInv, pde \in Pde, SameRing(pde, pde'), pde'.enabled = pde.enabled,
         pde'.dma = pde.dma, \A c \in Chans : pde'.chan[c].mode = pde.chan[c].mode,
         SamePlaces(board, board'),
         hist'.clean = hist.clean, hist'.bad = hist.bad, hist'.stop = hist.stop,
         hist'.single = hist.single, hist'.updates = hist.updates
  PROVE  OutInv'
<1>1. pde.enabled \subseteq Chans
  BY DEF Pde
<1>2. hist'.clean => Silent
  BY <1>1 DEF Silent
<1> QED BY <1>2, SilentStep
-----------------------------------------------------------------------------
(* Each step of driver, board and library.                                 *)
Kept == OutInv /\ IInv

LEMMA KeptTypes ==
  ASSUME Kept
  PROVE  /\ pde \in Pde /\ board \in Fed /\ hist \in History /\ OutInv /\ DacInv
         /\ lib \in Lib /\ pde.enabled \subseteq Chans
BY DEF Kept, IInv, DacInv, DacTypes, LibTypes, Pde

LEMMA ModeSilent ==
  ASSUME Kept, NEW c \in Chans, NEW m \in Modes3, DacMode(c, m)
  PROVE  OutInv'
<1>1. pde \in Pde /\ OutInv /\ pde.enabled \subseteq Chans
  BY KeptTypes
<1>2. pde' = SetMode(pde, c, m) /\ board' = board /\ hist' = hist
  BY DEF DacMode
<1>3. CASE ModeRefused(pde, c, m)
  <2>1. pde' = pde
    BY <1>2, <1>3 DEF SetMode
  <2> QED BY <1>1, <1>2, <2>1 DEF OutInv
<1>4. CASE ~ModeRefused(pde, c, m)
  <2> DEFINE ch == [pde.chan EXCEPT ![c].mode = m]
             en == pde.enabled \ {c}
  <2>1. pde' = [pde EXCEPT !.chan = ch, !.enabled = en]
    BY <1>1, <1>2, <1>4 DEF SetMode, Pde
  <2>2. \A d \in Chans : d # c => ch[d].mode = pde.chan[d].mode
    BY <1>1 DEF Pde, Channel
  <2> HIDE DEF ch, en
  <2>3. SameRing(pde, pde') /\ pde'.dma = pde.dma /\ pde'.chan = ch /\ pde'.enabled = en
    BY <1>1, <2>1 DEF Pde, SameRing
  <2>4. ASSUME hist.clean, pde.dma PROVE c \notin pde.enabled
    <3>1. Audible(pde)
      BY <1>1, <2>4 DEF OutInv, Playing
    <3>2. pde.chan[c].mode = "voltage"
      BY <1>4, <2>4 DEF ModeRefused
    <3> QED BY <3>1, <3>2 DEF Audible
  <2>5. hist'.clean => Silent
    <3>1. ASSUME hist.clean, pde.dma
          PROVE  /\ pde'.enabled = pde.enabled
                 /\ \A d \in pde.enabled : pde'.chan[d].mode = pde.chan[d].mode
      BY <1>1, <2>2, <2>3, <2>4, <3>1 DEF en
    <3> QED BY <1>2, <2>3, <3>1 DEF Silent, SamePlaces
  <2> QED BY <1>1, <2>5, SilentStep
<1> QED BY <1>3, <1>4

(* Start with a new configuration, or the one it had.                      *)
LEMMA StartSilent ==
  ASSUME Kept, NEW k \in Conf, NEW c \in Chans, NEW len \in Nat \ {0}, NEW x,
         pde' = Start([pde EXCEPT !.conf = k], c, len), board' = board,
         hist' = [hist EXCEPT !.overflow = x, !.owner = c]
  PROVE  OutInv'
<1> DEFINE p == [pde EXCEPT !.conf = k]
<1>1. pde \in Pde /\ hist \in History /\ OutInv
  BY KeptTypes
<1>2. p \in Pde /\ p.chan = pde.chan /\ p.enabled = pde.enabled /\ p.dma = pde.dma
      /\ SameRing(pde, p)
  BY <1>1 DEF Pde, SameRing
<1>3. pde' = Start(p, c, len)
  OBVIOUS
<1> HIDE DEF p
<1>4. Started(p, c, len, pde')
  BY <1>2, <1>3, StartFacts
<1>5. \A d \in Chans : pde'.chan[d].mode = pde.chan[d].mode
  BY <1>2, <1>4 DEF Started
<1>6. pde'.dma = p.dma /\ pde'.enabled = p.enabled
  BY <1>4 DEF Started, SameRun
<1>7. SameRing(p, pde')
  BY <1>2, <1>3, SMTT(30) DEF Start, Pde, SameRing
<1>8. SameRing(pde, pde')
  BY <1>2, <1>7 DEF SameRing
<1>9. hist'.clean = hist.clean /\ hist'.bad = hist.bad /\ hist'.stop = hist.stop
      /\ hist'.single = hist.single /\ hist'.updates = hist.updates
  BY <1>1 DEF History
<1> QED BY <1>1, <1>2, <1>5, <1>6, <1>8, <1>9, QuietSilent DEF SamePlaces

LEMMA NoMemorySilent ==
  ASSUME Kept, NEW k \in Conf, NEW c \in Chans, board' = board, hist' = hist,
         pde' = [pde EXCEPT !.conf = k, !.chan[c].mdl = FALSE]
  PROVE  OutInv'
<1> DEFINE ch == [pde.chan EXCEPT ![c].mdl = FALSE]
<1>1. pde \in Pde /\ OutInv
  BY KeptTypes
<1>2. \A d \in Chans : ch[d].mode = pde.chan[d].mode
  BY <1>1 DEF Pde, Channel
<1>3. pde' = [pde EXCEPT !.conf = k, !.chan = ch]
  BY <1>1 DEF Pde
<1> HIDE DEF ch
<1>4. SameRing(pde, pde') /\ pde'.dma = pde.dma /\ pde'.enabled = pde.enabled /\ pde'.chan = ch
  BY <1>1, <1>3 DEF Pde, SameRing
<1> QED BY <1>1, <1>2, <1>4, QuietSilent DEF SamePlaces

LEMMA StopSilent ==
  ASSUME Kept, DacStop
  PROVE  OutInv'
<1>1. pde \in Pde /\ hist \in History /\ OutInv
  BY KeptTypes
<1>2. pde' = Stop(pde) /\ board' = board
      /\ hist' = [hist EXCEPT !.stopped = (@ \/ pde.active)]
  BY DEF DacStop
<1>3. Stopped(pde, pde')
  BY <1>1, <1>2, StopFacts
<1>4. SameRing(pde, pde')
  BY <1>1, <1>2, SMTT(30) DEF Stop, Pde, SameRing
<1>5. pde'.dma = pde.dma /\ pde'.enabled = pde.enabled
      /\ \A c \in Chans : pde'.chan[c].mode = pde.chan[c].mode
  BY <1>3 DEF Stopped, SameRun
<1>6. hist'.clean = hist.clean /\ hist'.bad = hist.bad /\ hist'.stop = hist.stop
      /\ hist'.single = hist.single /\ hist'.updates = hist.updates
  BY <1>1, <1>2 DEF History
<1> QED BY <1>1, <1>2, <1>4, <1>5, <1>6, QuietSilent DEF SamePlaces

(* dacDisarm, with dacStop or not, or none of it.                          *)
LEMMA EndSilent ==
  ASSUME Kept, hist' = Rested(hist), BoardRests, ~pde'.dma \/ pde' = pde
  PROVE  OutInv'
<1>1. hist \in History /\ OutInv /\ pde.enabled \subseteq Chans
  BY KeptTypes
<1>2. SameRing(pde, pde)
  BY DEF SameRing
<1> QED BY <1>1, <1>2, RestedSilent

LEMMA DisarmedOff ==
  ASSUME NEW p \in Pde
  PROVE  ~Disarm(p).dma /\ ~Stop(Disarm(p)).dma
<1>1. ~Disarm(p).dma
  BY DisarmFacts
<1>2. ~Stop(Disarm(p)).dma
  BY EndFacts DEF Ended, Quieted
<1> QED BY <1>1, <1>2

(* A setting of the driver that the output does not depend on.             *)
LEMMA SettingSilent ==
  ASSUME Kept, board' = board, SameRing(pde, pde'), pde'.enabled = pde.enabled,
         pde'.dma = pde.dma, pde'.chan = pde.chan,
         hist'.clean = hist.clean, hist'.bad = hist.bad, hist'.stop = hist.stop,
         hist'.single = hist.single, hist'.updates = hist.updates
  PROVE  OutInv'
BY KeptTypes, QuietSilent DEF SamePlaces

LEMMA ArmSounds ==
  ASSUME Kept, DacArmBegin
  PROVE  OutInv'
<1> DEFINE p == Rearmed(pde)
<1>1. pde \in Pde /\ hist \in History /\ Owned(pde)
  BY KeptTypes DEF DacInv, Transferred
<1>2. /\ p \in Pde /\ SameChans(pde, p) /\ SameAsked(pde, p) /\ p.dmaed = 0
  BY <1>1, RearmedFacts
<1>3. /\ SetupError(pde) = "None" /\ pde' = ArmedDma(p) /\ board' = BoardStart(pde')
      /\ hist'.clean = Clean(p) /\ hist'.bad = FALSE /\ hist'.updates = 0
      /\ hist'.stop = p.conf.stop /\ hist'.single = p.single
  BY DEF DacArmBegin, InitHist
<1> HIDE DEF p
<1>4. Owned(p) /\ SetupError(p) = "None"
  BY <1>1, <1>2, <1>3, SameSetup DEF Owned, SameChans, SameAsked
<1>5. SUFFICES ASSUME hist'.clean PROVE Playing(pde', board', hist')
  BY <1>3 DEF OutInv
<1>6. Ready(p)
  BY <1>2, <1>3, <1>4, <1>5 DEF Ready
<1>7. /\ p.single \in Nat \ {0} /\ Audible(pde') /\ Laid(pde', p.conf.stop, p.single)
  BY <1>2, <1>3, <1>6, ArmLays
<1>8. pde' \in Pde /\ Padded(pde')
  BY <1>2, <1>3, <1>4, ArmedDmaFacts
<1>9. p.conf.stop \in Nat
  BY <1>2 DEF Pde, Conf
<1>10. Plays(pde', board', p.conf.stop, p.single, 0)
  BY <1>3, <1>7, <1>8, <1>9, StartPlays
<1> QED BY <1>3, <1>7, <1>10 DEF Playing

LEMMA ArmFailsSilent ==
  ASSUME Kept, DacArmFails
  PROVE  OutInv'
<1>1. pde \in Pde /\ hist \in History /\ OutInv
  BY KeptTypes
<1>2. ~pde'.dma
  BY <1>1, RearmedFacts DEF DacArmFails
<1>3. hist'.clean = hist.clean /\ hist'.bad = hist.bad
  BY <1>1 DEF DacArmFails, History
<1> QED BY <1>1, <1>2, <1>3 DEF OutInv

LEMMA RefusedSilent ==
  ASSUME Kept, DacArmRefused
  PROVE  OutInv'
BY KeptTypes DEF DacArmRefused, dacVars, OutInv

LEMMA ArmingSilent ==
  ASSUME Kept, DacArmActive \/ DacArmDone \/ DacArmTimeout
  PROVE  OutInv'
<1>1. pde \in Pde /\ hist \in History /\ OutInv
  BY KeptTypes
<1> DEFINE x == IF pde.die \/ pde.running THEN TRUE ELSE FALSE
<1>2. /\ board' = board
      /\ \/ pde' = [pde EXCEPT !.active = TRUE, !.error = "None", !.die = x]
         \/ pde' = [pde EXCEPT !.running = TRUE, !.die = FALSE, !.timer = TRUE]
         \/ pde' = [pde EXCEPT !.die = TRUE]
      /\ \/ hist' = [hist EXCEPT !.null = FALSE, !.spill = FALSE]
         \/ hist' = hist
         \/ hist' = [hist EXCEPT !.late = TRUE]
  <2>1. CASE DacArmActive
    <3>1. (pde.die \/ pde.running) = x
      BY <1>1 DEF Pde
    <3>2. pde' = [pde EXCEPT !.active = TRUE, !.error = "None", !.die = (pde.die \/ pde.running)]
          /\ hist' = [hist EXCEPT !.null = FALSE, !.spill = FALSE] /\ board' = board
      BY <2>1 DEF DacArmActive
    <3> HIDE DEF x
    <3> QED BY <3>1, <3>2
  <2>2. CASE DacArmDone
    BY <2>2 DEF DacArmDone, Kick
  <2>3. CASE DacArmTimeout
    BY <2>3 DEF DacArmTimeout
  <2> QED BY <2>1, <2>2, <2>3
<1> HIDE DEF x
<1>3. /\ SameRing(pde, pde') /\ pde'.enabled = pde.enabled /\ pde'.dma = pde.dma
      /\ pde'.chan = pde.chan
  <2>1. CASE pde' = [pde EXCEPT !.active = TRUE, !.error = "None", !.die = x]
    BY <1>1, <2>1 DEF Pde, SameRing
  <2>2. CASE pde' = [pde EXCEPT !.running = TRUE, !.die = FALSE, !.timer = TRUE]
    BY <1>1, <2>2 DEF Pde, SameRing
  <2>3. CASE pde' = [pde EXCEPT !.die = TRUE]
    BY <1>1, <2>3 DEF Pde, SameRing
  <2> QED BY <1>2, <2>1, <2>2, <2>3
<1>4. hist'.clean = hist.clean /\ hist'.bad = hist.bad /\ hist'.stop = hist.stop
      /\ hist'.single = hist.single /\ hist'.updates = hist.updates
  BY <1>1, <1>2 DEF History
<1> QED BY <1>2, <1>3, <1>4, SettingSilent

(* The callback of a static waveform only counts, or ends it.              *)
LEMMA CheckedStatic ==
  ASSUME Kept, pde.dma, ~pde.dynamic, NEW q, q = CheckEventsAndMoveData(pde)
  PROVE  /\ q \in Pde
         /\ q.dma => SameRing(pde, q) /\ q.enabled = pde.enabled /\ q.chan = pde.chan
<1> DEFINE s == hist.seen
           u == hist.updates
           c == ComputeSamplesDmaed(pde)
           x == IF c.triggered \/ c.dmaed - pde.dmaed > 0 THEN TRUE ELSE FALSE
           r == [c EXCEPT !.triggered = x]
<1>1. /\ pde \in Pde /\ Padded(pde) /\ s \in Nat /\ u \in Nat /\ s <= u /\ u - s < Word
      /\ Counted(pde, s) /\ board.count = u % Word
  <2>1. pde \in Pde /\ s \in Nat /\ u \in Nat /\ DacInv
    BY KeptTypes DEF History
  <2>2. /\ Padded(pde) /\ s <= u /\ u - s <= MaxGap
        /\ Counted(pde, s) /\ board.count = u % Word
    BY <2>1 DEF DacInv, Fetching, Counting
  <2>3. MaxGap < Word /\ MaxGap \in Nat /\ Word \in Nat
    BY DacAssumption
  <2> QED BY <2>1, <2>2, <2>3
<1> HIDE DEF s, u
<1>2. /\ c \in Pde /\ SameRun(pde, c) /\ c.chan = pde.chan
  BY <1>1, ComputeFacts
<1>3. SameRing(pde, c)
  BY <1>1, SMTT(30) DEF ComputeSamplesDmaed, Pde, SameRing
<1>4. [c EXCEPT !.triggered = @ \/ c.dmaed - pde.dmaed > 0] = r
  <2>1. (c.triggered \/ c.dmaed - pde.dmaed > 0) = x
    OBVIOUS
  <2> QED BY <2>1
<1>5. \/ q = Fail(c, "PacerOverrun")
      \/ q = Finished(r)
      \/ q = r
  <2> DEFINE rr == [c EXCEPT !.triggered = @ \/ c.dmaed - pde.dmaed > 0]
  <2>1. q = IF board.fault THEN Fail(c, "PacerOverrun")
            ELSE IF ~pde.conf.infinite /\ rr.dmaed >= pde.total THEN Finished(rr)
            ELSE rr
    BY DEF CheckEventsAndMoveData
  <2>2. rr = r
    BY <1>4
  <2> HIDE DEF rr, r, c
  <2> QED BY <2>1, <2>2
<1>6. r \in Pde /\ SameRing(c, r) /\ r.enabled = c.enabled /\ r.chan = c.chan /\ r.dma = c.dma
  <2>1. x \in BOOLEAN
    OBVIOUS
  <2> HIDE DEF x, c
  <2> QED BY <1>2, <2>1 DEF Pde, SameRing
<1> HIDE DEF c, r
<1>7. CASE q = Fail(c, "PacerOverrun")
  <2>1. q \in Pde /\ Ended(c, q)
    BY <1>2, <1>7, FailFacts DEF Errors
  <2> QED BY <2>1 DEF Ended, Quieted
<1>8. CASE q = Finished(r)
  <2>1. q \in Pde /\ Ended(r, q)
    BY <1>6, <1>8, FinishedFacts
  <2> QED BY <2>1 DEF Ended, Quieted
<1>9. CASE q = r
  BY <1>2, <1>3, <1>6, <1>9 DEF SameRing, SameRun
<1> QED BY <1>5, <1>7, <1>8, <1>9

(* The callback counts, or ends the waveform; the ring of a static one is  *)
(* never written again.                                                    *)
LEMMA CallbackSilent ==
  ASSUME Kept, DacEventL
  PROVE  OutInv'
<1>1. pde \in Pde /\ hist \in History /\ OutInv /\ pde.enabled \subseteq Chans
  BY KeptTypes
<1> DEFINE r == IF pde.die \/ ~pde.dma THEN pde ELSE CheckEventsAndMoveData(pde)
           again == IF ~pde.die /\ r.dma THEN TRUE ELSE FALSE
           s == IF pde.die \/ ~pde.dma THEN hist.seen ELSE hist.updates
           o == hist.overtook \/ (call = "armed" /\ ~pde'.dma)
           h == [hist EXCEPT !.seen = s, !.overtook = o]
<1>2. pde' = [r EXCEPT !.running = again, !.timer = again]
  <2>1. (~pde.die /\ r.dma) = again
    OBVIOUS
  <2>2. pde' = [r EXCEPT !.running = (~pde.die /\ r.dma), !.timer = (~pde.die /\ r.dma)]
    BY DEF DacEventL, EventL
  <2> HIDE DEF r, again
  <2> QED BY <2>1, <2>2
<1>3. hist' = Rested(h)
  BY DEF DacEventL
<1>4. /\ h.clean = hist.clean /\ h.bad = hist.bad /\ h.stop = hist.stop
      /\ h.single = hist.single /\ h.updates = hist.updates
  <2> HIDE DEF s, o
  <2> QED BY <1>1 DEF History
<1>6. CASE ~pde'.dma
  <2>1. hist' = [h EXCEPT !.updates = h.seen, !.clean = FALSE, !.bad = FALSE, !.stop = 0,
                          !.single = 1]
    BY <1>3, <1>6 DEF Rested
  <2>2. ~hist'.clean
    <3> HIDE DEF s, o
    <3> QED BY <1>1, <2>1 DEF History
  <2> QED BY <2>2 DEF OutInv
<1>7. CASE pde'.dma
  <2>1. hist' = h /\ board' = board
    BY <1>3, <1>7 DEF Rested, DacEventL, BoardRests
  <2> HIDE DEF h, again
  <2>2. SUFFICES ASSUME hist.clean PROVE Silent
    BY <1>1, <1>4, <2>1, SilentStep
  <2>3. CASE pde.die \/ ~pde.dma
    <3>1. pde' = [pde EXCEPT !.running = again, !.timer = again]
      BY <1>2, <2>3
    <3>2. SameRing(pde, pde') /\ pde'.enabled = pde.enabled /\ pde'.dma = pde.dma
          /\ pde'.chan = pde.chan
      BY <1>1, <3>1 DEF Pde, SameRing
    <3> QED BY <1>4, <1>7, <2>1, <2>2, <3>2 DEF Silent, SamePlaces
  <2>4. CASE ~(pde.die \/ ~pde.dma)
    <3>1. r = CheckEventsAndMoveData(pde) /\ pde.dma
      BY <2>4
    <3> HIDE DEF r
    <3>2. ~pde.dynamic
      BY <1>1, <2>2, <3>1 DEF OutInv, Playing, Laid
    <3>3. /\ r \in Pde
          /\ r.dma => SameRing(pde, r) /\ r.enabled = pde.enabled /\ r.chan = pde.chan
      BY <3>1, <3>2, CheckedStatic
    <3>4. SameRing(r, pde') /\ pde'.enabled = r.enabled /\ pde'.dma = r.dma
          /\ pde'.chan = r.chan
      BY <1>2, <3>3 DEF Pde, SameRing
    <3>5. SameRing(pde, pde') /\ pde'.enabled = pde.enabled /\ pde'.chan = pde.chan
      BY <1>7, <3>3, <3>4 DEF SameRing
    <3> QED BY <1>4, <2>1, <2>2, <3>1, <3>5 DEF Silent, SamePlaces
  <2> QED BY <2>3, <2>4
<1> QED BY <1>6, <1>7

LEMMA UpdateSounds ==
  ASSUME Kept, BoardUpdate
  PROVE  OutInv'
<1>1. DacInv /\ OutInv /\ hist \in History
  BY KeptTypes
<1>2. pde.dma /\ hist'.clean = hist.clean
  BY <1>1 DEF BoardUpdate, History
<1>3. SUFFICES ASSUME hist.clean PROVE ~hist'.bad /\ Playing(pde', board', hist')
  BY <1>2 DEF OutInv
<1>4. ~hist.bad /\ Playing(pde, board, hist)
  BY <1>1, <1>2, <1>3 DEF OutInv
<1> QED BY <1>1, <1>4, UpdatePlays

LEMMA FaultSilent ==
  ASSUME Kept, BoardFault
  PROVE  OutInv'
<1>1. pde \in Pde /\ board \in Fed /\ OutInv
  BY KeptTypes
<1>2. pde' = pde /\ hist' = hist /\ board' = [board EXCEPT !.fault = TRUE]
  BY DEF BoardFault
<1>3. SamePlaces(board, board')
  BY <1>1, <1>2 DEF Fed, SamePlaces
<1> QED BY <1>1, <1>2, <1>3, QuietSilent DEF SameRing

LEMMA SettingsSilent ==
  ASSUME Kept, \/ \E conf \in Conf : DacConfigure(conf)
               \/ DacSoftTrig \/ DacGetStatus
  PROVE  OutInv'
<1>1. pde \in Pde
  BY KeptTypes
<1>2. /\ board' = board /\ hist' = hist
      /\ \/ \E conf \in Conf : pde' = [pde EXCEPT !.conf = conf]
         \/ pde' = [pde EXCEPT !.pacer = TRUE]
         \/ pde' = [pde EXCEPT !.error = "None"]
  BY DEF DacConfigure, DacSoftTrig, DacGetStatus
<1>3. /\ SameRing(pde, pde') /\ pde'.enabled = pde.enabled /\ pde'.dma = pde.dma
      /\ pde'.chan = pde.chan
  BY <1>1, <1>2 DEF Pde, SameRing
<1> QED BY <1>2, <1>3, SettingSilent

LEMMA DriverSounds ==
  ASSUME Kept, DriverNext
  PROVE  OutInv'
BY ArmingSilent, CallbackSilent, UpdateSounds, FaultSilent DEF DriverNext

LEMMA PlainStartSilent ==
  ASSUME Kept, NEW c \in Chans, NEW len \in Nat \ {0}, DacStart(c, len)
  PROVE  OutInv'
<1> DEFINE k == pde.conf
           x == pde'.chan[c].room < len
<1>1. k \in Conf /\ [pde EXCEPT !.conf = k] = pde
  BY SameConf, KeptTypes
<1>2. pde' = Start(pde, c, len) /\ board' = board
      /\ hist' = [hist EXCEPT !.overflow = x, !.owner = c]
  BY DEF DacStart
<1> HIDE DEF k, x
<1>3. pde' = Start([pde EXCEPT !.conf = k], c, len)
  BY <1>1, <1>2
<1> QED BY <1>1, <1>2, <1>3, StartSilent

LEMMA PlainNoMemorySilent ==
  ASSUME Kept, NEW c \in Chans, DacStartNoMemory(c)
  PROVE  OutInv'
<1> DEFINE k == pde.conf
<1>1. pde \in Pde /\ k \in Conf
  BY KeptTypes DEF Pde
<1>2. pde' = [pde EXCEPT !.chan[c].mdl = FALSE] /\ hist' = hist /\ board' = board
  BY DEF DacStartNoMemory
<1>3. pde' = [pde EXCEPT !.conf = k, !.chan[c].mdl = FALSE]
  BY <1>1, <1>2 DEF Pde
<1> HIDE DEF k
<1> QED BY <1>1, <1>2, <1>3, NoMemorySilent

LEMMA DirectSounds ==
  ASSUME Kept, DirectNext
  PROVE  OutInv'
<1>1. /\ pde \in Pde /\ caller \in Callers
  BY KeptTypes DEF Kept, IInv, LibTypes
<1>2. /\ caller = "direct"
      /\ Confs \subseteq Conf /\ Modes \subseteq Modes3 /\ Used \subseteq Chans
      /\ \A w \in Waveforms : w[1] \in Chans /\ w[2] \in Nat \ {0}
  BY <1>1, Asked DEF DirectNext, Direct, DirectMode, DirectConfigure, DirectStart,
         DirectNoMemory, DirectArm, DirectDisarm, DirectStop, DirectSoftTrig, DirectGetStatus
<1>3. CASE DirectMode
  <2>1. PICK c \in Used, m \in Modes : DacMode(c, m)
    BY <1>3 DEF DirectMode
  <2> QED BY <1>2, <2>1, ModeSilent
<1>4. CASE DirectConfigure \/ DirectSoftTrig \/ DirectGetStatus
  <2>1. (\E conf \in Conf : DacConfigure(conf)) \/ DacSoftTrig \/ DacGetStatus
    BY <1>2, <1>4 DEF DirectConfigure, DirectSoftTrig, DirectGetStatus
  <2> QED BY <2>1, SettingsSilent
<1>5. CASE DirectStart
  <2>1. PICK w \in Waveforms : DacStart(w[1], w[2])
    BY <1>5 DEF DirectStart
  <2> QED BY <1>2, <2>1, PlainStartSilent
<1>6. CASE DirectNoMemory
  <2>1. PICK c \in Used : DacStartNoMemory(c)
    BY <1>6 DEF DirectNoMemory
  <2> QED BY <1>2, <2>1, PlainNoMemorySilent
<1>7. CASE DirectArm
  BY <1>7, RefusedSilent, ArmFailsSilent, ArmSounds DEF DirectArm
<1>8. CASE DirectDisarm
  <2>1. hist' = Rested(hist) /\ BoardRests /\ ~pde'.dma
    BY <1>1, <1>8, DisarmedOff DEF DirectDisarm, DacDisarm
  <2> QED BY <2>1, EndSilent
<1>9. CASE DirectStop
  BY <1>9, StopSilent DEF DirectStop
<1> QED BY <1>3, <1>4, <1>5, <1>6, <1>7, <1>8, <1>9 DEF DirectNext

LEMMA ArmingLib ==
  ASSUME Kept, LibArming, lib.todo # <<>>
  PROVE  /\ Head(lib.todo) \in Chans /\ lib.wave[Head(lib.todo)] \in Wave /\ pde \in Pde
         /\ pde.conf \in Conf
<1>1. /\ ToStart /\ lib.wave \in [Chans -> Wave] /\ lib.todo \in Seq(Chans) /\ pde \in Pde
  BY ArmingFacts DEF Kept
<1>2. Head(lib.todo) \in Chans
  BY <1>1, FirstToStart
<1> QED BY <1>1, <1>2 DEF Pde

LEMMA LibArmSounds ==
  ASSUME Kept, LibArmStart \/ LibArmConfigFails \/ LibArmStartFails \/ LibArm
  PROVE  OutInv'
<1> DEFINE c == Head(lib.todo)
           w == lib.wave[c]
           k == IF w.confNew THEN w.conf ELSE pde.conf
           n == w.len
           x == pde'.chan[c].room < n
<1>1. ASSUME LibArming, lib.todo # <<>>
      PROVE  c \in Chans /\ w.conf \in Conf /\ k \in Conf /\ n \in Nat \ {0} /\ pde \in Pde
  BY <1>1, ArmingLib DEF Wave
<1>2. CASE LibArmStart
  <2>1. pde' = Start(IF w.confNew THEN [pde EXCEPT !.conf = w.conf] ELSE pde, c, n)
        /\ hist' = [hist EXCEPT !.overflow = x, !.owner = c] /\ board' = board
        /\ LibArming /\ lib.todo # <<>>
    BY <1>2 DEF LibArmStart
  <2>2. (IF w.confNew THEN [pde EXCEPT !.conf = w.conf] ELSE pde) = [pde EXCEPT !.conf = k]
    BY <1>1, <2>1, SameConf
  <2>3. pde' = Start([pde EXCEPT !.conf = k], c, n)
    BY <2>1, <2>2
  <2>4. c \in Chans /\ k \in Conf /\ n \in Nat \ {0}
    BY <1>1, <2>1
  <2> HIDE DEF c, w, k, n, x
  <2> QED BY <2>1, <2>3, <2>4, StartSilent
<1>3. CASE LibArmConfigFails
  <2>1. DacConfigure(w.conf) /\ w.conf \in Conf
    BY <1>1, <1>3 DEF LibArmConfigFails
  <2> HIDE DEF w
  <2> QED BY <2>1, SettingsSilent
<1>4. CASE LibArmStartFails
  <2>1. /\ pde' = [pde EXCEPT !.conf = k, !.chan[c].mdl = FALSE] /\ board' = board
        /\ hist' = hist /\ LibArming /\ lib.todo # <<>>
    BY <1>4 DEF LibArmStartFails
  <2>2. c \in Chans /\ k \in Conf
    BY <1>1, <2>1
  <2> HIDE DEF c, k
  <2> QED BY <2>1, <2>2, NoMemorySilent
<1>5. CASE LibArm
  BY <1>5, RefusedSilent, ArmFailsSilent, ArmSounds DEF LibArm
<1> QED BY <1>2, <1>3, <1>4, <1>5

LEMMA LibEndSilent ==
  ASSUME Kept, LibDisarm \/ LibGetStat \/ LibReopen
  PROVE  OutInv'
<1>1. pde \in Pde /\ hist \in History /\ OutInv /\ pde.enabled \subseteq Chans
      /\ hist' = Rested(hist) /\ BoardRests
  BY KeptTypes DEF LibDisarm, LibGetStat, LibReopen
<1>2. CASE WaveDisarm
  <2>1. ~pde'.dma \/ pde' = pde
    BY <1>1, <1>2, DisarmedOff DEF WaveDisarm
  <2> QED BY <1>1, <2>1, EndSilent
<1>3. CASE pde' = pde
  BY <1>1, <1>3, EndSilent
<1>4. CASE pde' = [pde EXCEPT !.error = "None"]
  <2>1. /\ SameRing(pde, pde') /\ pde'.enabled = pde.enabled /\ pde'.dma = pde.dma
        /\ pde'.chan = pde.chan
    BY <1>1, <1>4 DEF Pde, SameRing
  <2> QED BY <1>1, <2>1, RestedSilent
<1>5. CASE LibReopen
  <2>1. ASSUME NEW p \in Pde, ~p.dma, pde' = Opened(p) PROVE ~pde'.dma
    BY <2>1 DEF Opened, Pde
  <2>2. pde' = Opened(Stop(Disarm(pde))) \/ pde' = Opened(Disarm(pde))
    BY <1>5 DEF LibReopen
  <2>3. Disarm(pde) \in Pde /\ Stop(Disarm(pde)) \in Pde
        /\ ~Disarm(pde).dma /\ ~Stop(Disarm(pde)).dma
    BY <1>1, DisarmFacts, EndFacts, DisarmedOff
  <2>4. ~pde'.dma
    BY <2>1, <2>2, <2>3
  <2> QED BY <1>1, <2>4, EndSilent
<1> QED BY <1>2, <1>3, <1>4, <1>5 DEF LibDisarm, LibGetStat

LEMMA LibrarySounds ==
  ASSUME Kept, LibraryNext
  PROVE  OutInv'
<1>1. /\ Modes \subseteq Modes3 /\ Used \subseteq Chans
  BY Asked DEF Kept, IInv, LibTypes
<1>2. CASE \E c \in Used : \E m \in Modes : LibSetOutputMode(c, m)
  BY <1>1, <1>2, ModeSilent DEF LibSetOutputMode
<1>3. CASE \/ \E c \in Used : \E conf \in Confs : LibSetConf(c, conf)
           \/ \E w \in Waveforms : LibSetBuffer(w[1], w[2])
           \/ LibArmBegin
  <2>1. pde' = pde /\ board' = board /\ hist' = hist
    BY <1>3 DEF LibSetConf, LibSetBuffer, LibArmBegin, KeepDriver, dacVars
  <2> QED BY <2>1, KeptTypes DEF OutInv
<1>4. CASE LibSoftTrig
  BY <1>4, SettingsSilent DEF LibSoftTrig
<1> QED BY <1>2, <1>3, <1>4, LibArmSounds, LibEndSilent DEF LibraryNext

LEMMA OutputStep == IInv /\ OutInv /\ [Next]_vars => OutInv'
<1> SUFFICES ASSUME Kept, [Next]_vars PROVE OutInv'
  BY DEF Kept
<1>1. CASE UNCHANGED vars
  BY <1>1 DEF vars, Kept, OutInv
<1> QED BY <1>1, DirectSounds, LibrarySounds, DriverSounds DEF Next

(* A static waveform whose channels were all armed at the start of a       *)
(* transfer of the common length comes out sample for sample, each channel *)
(* its own and in turn, over every wrap of ring, FIFO and descriptors; a   *)
(* counted one that fits the ring holds its last sample after it           *)
(* (dac.c:604-630, 684-745).                                               *)
THEOREM OutputStaysExact == Spec => []OutputExact
<1>1. Init => OutInv
  BY DEF Init, DacInit, InitHist, OutInv
<1>2. OutInv => OutputExact
  BY DEF OutInv, OutputExact
<1> QED BY <1>1, <1>2, OutputStep, Invariance, PTL DEF Spec
=============================================================================
