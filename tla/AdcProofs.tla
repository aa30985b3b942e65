----------------------------- MODULE AdcProofs -----------------------------
(***************************************************************************)
(* Theorems about AdcAcquisition, for every ring, buffer and request: what *)
(* is running, and how many scans the engine hands over, where they begin  *)
(* and that no length goes wrong.                                          *)
(***************************************************************************)
EXTENDS AdcAcquisition, WellFoundedInduction, TLAPS

(* What the board does and what the program is told of it: the fields that *)
(* only arming, disarming and errors change.                               *)
Kept(d, e) ==
  /\ e.acqActive = d.acqActive /\ e.dma = d.dma /\ e.pacer = d.pacer
  /\ e.error = d.error /\ e.running = d.running /\ e.event = d.event

Quiet(d) == ~d.acqActive /\ ~d.dma /\ d.pacer = "off"

LEMMA ModRange ==
  ASSUME NEW a \in Int, NEW b \in Nat \ {0}
  PROVE  a % b \in 0..(b - 1)
OBVIOUS

LEMMA ModType ==
  ASSUME NEW a \in Int, NEW b \in Nat \ {0}
  PROVE  a % b \in Int
OBVIOUS

LEMMA LastInType ==
  ASSUME NEW n \in Int, NEW slot \in Int, NEW cycle \in Nat \ {0}
  PROVE  LastIn(n, slot, cycle) \in Int
BY DEF LastIn

LEMMA StopType ==
  ASSUME NEW d, IsPde(d)
  PROVE  IsPde(AdcStop(d)) /\ Kept(d, AdcStop(d)) /\ AdcStop(d).die
BY DEF Kept, IsPde, Flags, Counts, Others, AdcStop

LEMMA DisarmAcquisitionType ==
  ASSUME NEW d, IsPde(d)
  PROVE  /\ IsPde(AdcDisarmAcquisition(d)) /\ Quiet(AdcDisarmAcquisition(d))
         /\ AdcDisarmAcquisition(d).error = d.error
         /\ AdcDisarmAcquisition(d).running = d.running
         /\ AdcDisarmAcquisition(d).die = d.die
BY DEF Quiet, IsPde, Flags, Counts, Others, AdcDisarmAcquisition

LEMMA DisarmType ==
  ASSUME NEW d, IsPde(d)
  PROVE  /\ IsPde(AdcDisarm(d)) /\ Quiet(AdcDisarm(d))
         /\ AdcDisarm(d).error = d.error /\ AdcDisarm(d).running = d.running
         /\ AdcDisarm(d).die = d.die
<1> DEFINE e == AdcDisarmAcquisition(d)
<1>1. IsPde(e) /\ Quiet(e) /\ e.error = d.error /\ e.running = d.running /\ e.die = d.die
  BY DisarmAcquisitionType
<1>2. AdcDisarm(d) = [e EXCEPT !.dropped = e.dropped + d.toMove, !.toMove = 0]
  BY DEF AdcDisarm
<1> HIDE DEF e
<1> QED BY <1>1, <1>2 DEF Quiet, IsPde, Flags, Counts, Others

LEMMA AdvanceType ==
  ASSUME NEW d, IsPde(d), NEW n \in Int
  PROVE  IsPde(Advance(d, n)) /\ Kept(d, Advance(d, n)) /\ Advance(d, n).die = d.die
<1> DEFINE h == (d.head + n) % RingScans
           u == (d.userHead + n) % d.size
<1>1. h \in 0..(RingScans - 1)
  <2>1. d.head + n \in Int /\ RingScans \in Nat \ {0}
    BY SizesAssumption DEF IsPde
  <2> QED BY <2>1, ModRange, Zenon
<1>2. u \in Cells
  <2>1. d.size \in Nat \ {0} /\ d.size <= InBufScans /\ d.userHead \in Int
    BY SizesAssumption DEF IsPde, Cells
  <2>2. d.userHead + n \in Int
    BY <2>1
  <2>3. u \in 0..(d.size - 1)
    BY <2>1, <2>2, ModRange, Zenon
  <2> HIDE DEF u
  <2> QED BY <2>1, <2>3, SizesAssumption DEF Cells
<1>3. Advance(d, n) = [d EXCEPT !.head = h, !.userHead = u,
                                !.inUser = d.inUser + n, !.sent = d.sent + n]
  BY DEF Advance
<1> HIDE DEF h, u
<1> QED BY <1>1, <1>2, <1>3 DEF Kept, IsPde, Flags, Counts, Others

LEMMA RingCellType ==
  ASSUME scans \in Nat, NEW slot \in Int
  PROVE  RingCell(slot) \in Nat
<1>1. LastIn(scans, slot, RingScans) \in Int
  BY ModRange, SizesAssumption DEF LastIn
<1> QED BY <1>1 DEF RingCell, AtLeast, Empty

LEMMA MemCopyType ==
  ASSUME scans \in Nat, NEW d, IsPde(d), NEW n \in Int
  PROVE  IsPde(MemCopy(d, n)) /\ Kept(d, MemCopy(d, n)) /\ MemCopy(d, n).die = d.die
<1> DEFINE lands(p) == LastIn(n, p - d.userHead, d.size)
           cell(p) == IF p >= d.size \/ lands(p) < 1 THEN d.buf[p]
                      ELSE RingCell((d.head + lands(p) - 1) % RingScans)
           buf == [p \in Cells |-> cell(p)]
           stale == d.stale \/ (n > 0 /\ NextWanted(d) + RingScans <= scans)
<1>1. ASSUME NEW p \in Cells PROVE cell(p) \in Nat \cup {Arg}
  <2>1. d.size \in Nat \ {0} /\ d.userHead \in Int /\ p \in Int /\ d.head \in Int
    BY <1>1, SizesAssumption DEF IsPde, Cells
  <2>2. lands(p) \in Int
    BY <2>1, LastInType
  <2> HIDE DEF lands
  <2>3. (d.head + lands(p) - 1) % RingScans \in Int
    BY <2>1, <2>2, ModType, SizesAssumption
  <2>4. d.buf[p] \in Nat \cup {Arg}
    BY <1>1 DEF IsPde
  <2> QED BY <2>3, <2>4, RingCellType
<1>2. buf \in [Cells -> Nat \cup {Arg}]
  BY <1>1
<1>3. stale \in BOOLEAN
  BY DEF IsPde, Flags
<1>4. MemCopy(d, n) = [d EXCEPT !.buf = buf, !.stale = stale]
  BY DEF MemCopy
<1> HIDE DEF buf, stale
<1> QED BY <1>2, <1>3, <1>4 DEF Kept, IsPde, Flags, Counts, Others

LEMMA CopyNewScansType ==
  ASSUME scans \in Nat, NEW d, IsPde(d), NEW n \in Int
  PROVE  IsPde(CopyNewScans(d, n)) /\ Kept(d, CopyNewScans(d, n))
<1> DEFINE m == Room(d, n)
           kept == IF Fills(d, n) THEN [d EXCEPT !.toMove = n - m] ELSE d
           done == Advance(MemCopy(kept, m), m)
<1>1. m \in Int
  BY DEF Room, IsPde, Counts
<1> HIDE DEF m
<1>2. IsPde(kept) /\ Kept(d, kept)
  BY <1>1 DEF Kept, IsPde, Flags, Counts, Others
<1> HIDE DEF kept
<1>3. IsPde(MemCopy(kept, m)) /\ Kept(d, MemCopy(kept, m))
  BY <1>1, <1>2, MemCopyType DEF Kept
<1>4. IsPde(done) /\ Kept(d, done)
  BY <1>1, <1>3, AdvanceType DEF Kept
<1> HIDE DEF done
<1>5. IsPde(AdcStop(done)) /\ Kept(d, AdcStop(done))
  BY <1>4, StopType DEF Kept
<1>6. IsPde([d EXCEPT !.wild = TRUE]) /\ Kept(d, [d EXCEPT !.wild = TRUE])
  BY DEF Kept, IsPde, Flags, Counts, Others
<1>7. IsPde([d EXCEPT !.toMove = @ + n]) /\ Kept(d, [d EXCEPT !.toMove = @ + n])
  BY DEF Kept, IsPde, Flags, Counts, Others
<1>8. CopyNewScans(d, n) \in {[d EXCEPT !.wild = TRUE], d, [d EXCEPT !.toMove = @ + n],
                              AdcStop(done), done}
  BY DEF CopyNewScans, done, kept, m
<1> QED BY <1>4, <1>5, <1>6, <1>7, <1>8 DEF Kept

LEMMA ReadType ==
  ASSUME scans \in Nat, NEW d, IsPde(d), NEW lag \in Nat
  PROVE  /\ IsPde(ReadAcqScanCounter(d, lag)) /\ Kept(d, ReadAcqScanCounter(d, lag))
         /\ ReadAcqScanCounter(d, lag).die = d.die
<1> DEFINE waiting == d.event = "TRIGGER" /\ d.source = "Hardware" /\ ~d.trigHw
           read == AtLeast(d.read, scans - lag)
           hw == d.trigHw \/ waiting
<1>1. read \in Int /\ hw \in BOOLEAN
  BY DEF AtLeast, IsPde, Flags, Counts
<1>2. \/ ReadAcqScanCounter(d, lag) = d
      \/ ReadAcqScanCounter(d, lag) = [d EXCEPT !.read = read, !.trigHw = hw]
  BY DEF ReadAcqScanCounter
<1> HIDE DEF read, hw
<1>3. CASE ReadAcqScanCounter(d, lag) = d
  BY <1>3 DEF Kept
<1>4. CASE ReadAcqScanCounter(d, lag) = [d EXCEPT !.read = read, !.trigHw = hw]
  BY <1>1, <1>4 DEF Kept, IsPde, Flags, Counts, Others
<1> QED BY <1>2, <1>3, <1>4

LEMMA ComputeType ==
  ASSUME scans \in Nat, NEW d, IsPde(d), NEW lag \in Nat
  PROVE  IsPde(ComputeScansAcquired(d, lag)) /\ Kept(d, ComputeScansAcquired(d, lag))
<1> DEFINE r == ReadAcqScanCounter(d, lag)
<1>1. IsPde(r) /\ Kept(d, r)
  BY ReadType
<1>2. CASE d.event = "POSTSTOP"
  BY <1>2 DEF ComputeScansAcquired, Kept, IsPde, Flags, Counts, Others
<1>3. CASE d.event # "POSTSTOP"
  <2>1. ComputeScansAcquired(d, lag) = [r EXCEPT !.last = d.current, !.current = r.read]
    BY <1>3 DEF ComputeScansAcquired
  <2> HIDE DEF r
  <2> QED BY <1>1, <2>1 DEF Kept, IsPde, Flags, Counts, Others
<1> QED BY <1>2, <1>3

(* A set of natural numbers has a least element.                           *)
LEMMA LeastNatural ==
  ASSUME NEW T \in SUBSET Nat, T # {}
  PROVE  \E x \in T : \A y \in T : x <= y
<1>1. PICK x \in T : \A y \in T : ~(<<y, x>> \in OpToRel(<, Nat))
  BY WFMin, NatLessThanWellFounded
<1>2. \A y \in T : ~(y < x)
  BY <1>1 DEF OpToRel
<1> QED BY <1>2

LEMMA LevelOffsetType ==
  ASSUME NEW d, NEW n \in Nat
  PROVE  LevelOffset(d, n) \in 0..n
<1> DEFINE hit(i) == RingCell((d.search + i) % RingScans) \in Signal
           T == {i \in 0..n : i = n \/ hit(i)}
<1> HIDE DEF hit
<1>1. n \in T /\ T \in SUBSET Nat
  OBVIOUS
<1>2. PICK x \in T : \A y \in T : x <= y
  BY <1>1, LeastNatural
<1>3. \A j \in 0..(x - 1) : ~hit(j)
  BY <1>2
<1>4. \E i \in 0..n : (i = n \/ hit(i)) /\ \A j \in 0..(i - 1) : ~hit(j)
  BY <1>2, <1>3
<1>5. LevelOffset(d, n) = CHOOSE i \in 0..n : (i = n \/ hit(i)) /\ \A j \in 0..(i - 1) : ~hit(j)
  BY DEF LevelOffset, hit
<1> QED BY <1>4, <1>5

LEMMA SearchedType ==
  ASSUME NEW d, IsPde(d), NEW n \in Nat
  PROVE  IsPde(Searched(d, n)) /\ Kept(d, Searched(d, n))
<1> DEFINE s == (d.search + LevelOffset(d, n)) % RingScans
<1>1. s \in 0..(RingScans - 1)
  <2>1. d.search + LevelOffset(d, n) \in Int /\ RingScans \in Nat \ {0}
    BY LevelOffsetType, SizesAssumption DEF IsPde
  <2> QED BY <2>1, ModRange, Zenon
<1>2. Searched(d, n) = [d EXCEPT !.search = s]
  BY DEF Searched
<1> HIDE DEF s
<1> QED BY <1>1, <1>2 DEF Kept, IsPde, Flags, Counts, Others

LEMMA CheckForTriggerType ==
  ASSUME NEW d, IsPde(d), NEW acquired \in Int
  PROVE  LET c == CheckForTrigger(d, acquired)
         IN  IsPde(c.d) /\ Kept(d, c.d)
<1> DEFINE c == CheckForTrigger(d, acquired)
           n == acquired - d.trigCount
           e == [d EXCEPT !.trigCount = 0]
<1> SUFFICES IsPde(c.d) /\ Kept(d, c.d)
  OBVIOUS
<1>1. n \in Int /\ IsPde(e) /\ Kept(d, e)
  BY DEF Kept, IsPde, Flags, Counts, Others
<1>2. CASE acquired <= d.trigCount
  <2>1. c.d = [d EXCEPT !.trigCount = d.trigCount - acquired]
    BY <1>2 DEF CheckForTrigger
  <2> HIDE DEF c
  <2> QED BY <2>1 DEF Kept, IsPde, Flags, Counts, Others
<1>3. CASE acquired > d.trigCount
  <2>1. n \in Nat
    BY <1>1, <1>3 DEF IsPde, Counts
  <2>2. \/ \E s \in {1, AtLeast(1, d.trigScan)} : c.d = [e EXCEPT !.trigScan = s]
        \/ \E s \in {d.current - n + LevelOffset(d, n) + 1, Searched(e, n).trigScan} :
             c.d = [Searched(e, n) EXCEPT !.trigScan = s]
        \/ c.d = e
    BY <1>3 DEF CheckForTrigger, IsPde, Counts
  <2> DEFINE g == Searched(e, n)
  <2>3. IsPde(g) /\ Kept(d, g)
    BY <1>1, <2>1, SearchedType DEF Kept
  <2>4. AtLeast(1, d.trigScan) \in Int /\ d.current - n + LevelOffset(d, n) + 1 \in Int
        /\ g.trigScan \in Int
    BY <1>1, <2>1, <2>3, LevelOffsetType DEF AtLeast, IsPde, Counts
  <2>5. \A s \in Int : LET f == [e EXCEPT !.trigScan = s] IN IsPde(f) /\ Kept(d, f)
    <3> HIDE DEF e
    <3> QED BY <1>1 DEF Kept, IsPde, Flags, Counts, Others
  <2>6. \A s \in Int : LET f == [g EXCEPT !.trigScan = s] IN IsPde(f) /\ Kept(d, f)
    <3> HIDE DEF g
    <3> QED BY <2>3 DEF Kept, IsPde, Flags, Counts, Others
  <2> HIDE DEF c, e, n
  <2> QED BY <1>1, <2>2, <2>4, <2>5, <2>6
<1> QED BY <1>2, <1>3 DEF IsPde, Counts

LEMMA CheckForStopType ==
  ASSUME NEW d, IsPde(d), NEW acquired \in Int
  PROVE  LET c == CheckForStop(d, acquired)
         IN  IsPde(c.d) /\ Kept(d, c.d)
<1> DEFINE c == CheckForStop(d, acquired)
           n == acquired - d.stopCount
           e == [d EXCEPT !.stopCount = 0]
           g == Searched(e, n)
<1> SUFFICES IsPde(c.d) /\ Kept(d, c.d)
  OBVIOUS
<1>1. n \in Int /\ IsPde(e) /\ Kept(d, e)
  BY DEF Kept, IsPde, Flags, Counts, Others
<1>2. CASE acquired < d.stopCount
  <2>1. c.d = [d EXCEPT !.stopCount = d.stopCount - acquired]
    BY <1>2 DEF CheckForStop
  <2> HIDE DEF c
  <2> QED BY <2>1 DEF Kept, IsPde, Flags, Counts, Others
<1>3. CASE acquired >= d.stopCount
  <2>1. n \in Nat
    BY <1>1, <1>3 DEF IsPde, Counts
  <2>2. \/ c.d = [e EXCEPT !.stopScan = d.current - n]
        \/ \E s \in {d.current - n + LevelOffset(d, n) + 1, g.stopScan} :
             c.d = [g EXCEPT !.stopScan = s]
        \/ c.d = e
    BY <1>3 DEF CheckForStop, IsPde, Counts
  <2>3. IsPde(g) /\ Kept(d, g)
    BY <1>1, <2>1, SearchedType DEF Kept
  <2>4. d.current - n \in Int /\ d.current - n + LevelOffset(d, n) + 1 \in Int
        /\ g.stopScan \in Int
    BY <1>1, <2>1, <2>3, LevelOffsetType DEF IsPde, Counts
  <2>5. \A s \in Int : LET f == [e EXCEPT !.stopScan = s] IN IsPde(f) /\ Kept(d, f)
    <3> HIDE DEF e
    <3> QED BY <1>1 DEF Kept, IsPde, Flags, Counts, Others
  <2>6. \A s \in Int : LET f == [g EXCEPT !.stopScan = s] IN IsPde(f) /\ Kept(d, f)
    <3> HIDE DEF g
    <3> QED BY <2>3 DEF Kept, IsPde, Flags, Counts, Others
  <2> HIDE DEF c, e, n, g
  <2> QED BY <1>1, <2>2, <2>4, <2>5, <2>6
<1> QED BY <1>2, <1>3 DEF IsPde, Counts

(* A fatal error disarms; without one nothing of the control changes.      *)
LEMMA FatalErrorsType ==
  ASSUME fault \in BOOLEAN, NEW d, IsPde(d), NEW acquired \in Int
  PROVE  LET e == AdcCheckFatalErrors(d, acquired)
         IN  /\ IsPde(e)
             /\ fault \/ Overrun(d, acquired) => Quiet(e)
             /\ ~(fault \/ Overrun(d, acquired)) => Kept(d, e)
<1> DEFINE e == AdcCheckFatalErrors(d, acquired)
           hw == [d EXCEPT !.error = "Hardware"]
           stopped == AdcStop(AdcDisarm(d))
<1> SUFFICES /\ IsPde(e)
             /\ fault \/ Overrun(d, acquired) => Quiet(e)
             /\ ~(fault \/ Overrun(d, acquired)) => Kept(d, e)
  OBVIOUS
<1>1. CASE fault
  <2>1. IsPde(hw)
    BY DEF IsPde, Flags, Counts, Others
  <2>2. IsPde(AdcStop(AdcDisarm(hw))) /\ Quiet(AdcStop(AdcDisarm(hw)))
    BY <2>1, DisarmType, StopType DEF Kept, Quiet
  <2> QED BY <1>1, <2>2 DEF AdcCheckFatalErrors
<1>2. CASE ~fault /\ Overrun(d, acquired)
  <2>1. IsPde(stopped) /\ Quiet(stopped)
    BY DisarmType, StopType DEF Kept, Quiet
  <2>2. e = [stopped EXCEPT !.error = "Overrun"]
    BY <1>2 DEF AdcCheckFatalErrors
  <2> HIDE DEF stopped, e
  <2>3. IsPde(e)
    BY <2>1, <2>2 DEF IsPde, Flags, Counts, Others
  <2>4. Quiet(e)
    BY <2>1, <2>2 DEF Quiet, IsPde, Flags, Counts, Others
  <2> QED BY <1>2, <2>3, <2>4
<1>3. CASE ~fault /\ ~Overrun(d, acquired)
  <2>1. e = [d EXCEPT !.lastPass = acquired]
    BY <1>3 DEF AdcCheckFatalErrors
  <2> HIDE DEF e
  <2>2. IsPde(e)
    BY <2>1 DEF IsPde, Flags, Counts, Others
  <2>3. Kept(d, e)
    BY <2>1 DEF Kept, IsPde, Flags, Counts, Others
  <2> QED BY <1>3, <2>2, <2>3
<1> QED BY <1>1, <1>2, <1>3

LEMMA OnTriggerType ==
  ASSUME scans \in Nat, NEW d, IsPde(d)
  PROVE  /\ IsPde(OnTrigger(d)) /\ OnTrigger(d).running = d.running
         /\ OnTrigger(d).acqActive = d.acqActive /\ OnTrigger(d).dma = d.dma
         /\ OnTrigger(d).pacer = d.pacer /\ OnTrigger(d).error = d.error
<1> DEFINE h == (d.trigScan - d.pre - 1) % RingScans
           rewound == [d EXCEPT !.head = h, !.first = d.trigScan - d.pre]
           copied == CopyNewScans(rewound, d.pre)
           s == (copied.trigScan + copied.stopCount - 1) % RingScans
<1>1. h \in 0..(RingScans - 1)
  <2>1. d.trigScan - d.pre - 1 \in Int /\ RingScans \in Nat \ {0}
    BY SizesAssumption DEF IsPde, Counts
  <2> QED BY <2>1, ModRange, Zenon
<1>2. IsPde(rewound) /\ Kept(d, rewound)
  <2> HIDE DEF h
  <2> QED BY <1>1 DEF Kept, IsPde, Flags, Counts, Others
<1>3. d.pre \in Int
  BY DEF IsPde
<1> HIDE DEF h, rewound
<1>4. IsPde(copied) /\ Kept(d, copied)
  BY <1>2, <1>3, CopyNewScansType DEF Kept
<1> HIDE DEF copied
<1>5. s \in 0..(RingScans - 1)
  <2>1. copied.trigScan + copied.stopCount - 1 \in Int /\ RingScans \in Nat \ {0}
    BY <1>4, SizesAssumption DEF IsPde, Counts
  <2> QED BY <2>1, ModRange, Zenon
<1> HIDE DEF s
<1>6. OnTrigger(d) = [[copied EXCEPT !.event = "STOP", !.acqTriggered = TRUE, !.search = s]
                       EXCEPT !.last = d.trigScan - 1]
  BY DEF OnTrigger, SetupStopEvent, s, copied, rewound, h
<1> QED BY <1>4, <1>5, <1>6 DEF Kept, IsPde, Flags, Counts, Others, Events

LEMMA OnStopType ==
  ASSUME scans \in Nat, NEW d, IsPde(d)
  PROVE  IsPde(OnStop(d)) /\ Quiet(OnStop(d))
<1> DEFINE post == SetupPostStopEvent(d)
           back == [post EXCEPT !.current = d.last]
           e == ComputeScansAcquired(back, 0)
           copied == CopyNewScans(e, e.current - e.last)
<1>1. IsPde(post)
  BY DEF SetupPostStopEvent, IsPde, Flags, Counts, Others, Events
<1>2. IsPde(back)
  <2>1. d.last \in Int
    BY DEF IsPde, Counts
  <2> HIDE DEF post
  <2> QED BY <1>1, <2>1 DEF IsPde, Flags, Counts, Others
<1> HIDE DEF back
<1>3. IsPde(e)
  BY <1>2, ComputeType
<1> HIDE DEF e
<1>4. IsPde(copied)
  <2>1. e.current - e.last \in Int
    BY <1>3 DEF IsPde, Counts
  <2> QED BY <1>3, <2>1, CopyNewScansType
<1> HIDE DEF copied
<1>5. /\ IsPde(AdcStop(AdcDisarmAcquisition(copied)))
      /\ Quiet(AdcStop(AdcDisarmAcquisition(copied)))
  BY <1>4, DisarmAcquisitionType, StopType DEF Kept, Quiet
<1>6. OnStop(d) = AdcStop(AdcDisarmAcquisition(copied))
  <2>1. post.last = d.last
    BY DEF SetupPostStopEvent, IsPde, Flags, Counts, Others
  <2>2. back = [SetupPostStopEvent(d) EXCEPT !.current = d.last]
    BY <2>1 DEF back
  <2> QED BY <2>2 DEF OnStop, copied, e
<1> QED BY <1>5, <1>6

(* What a callback leaves: the control as it was, or nothing running.      *)
SameControl(d, e) ==
  /\ e.acqActive = d.acqActive /\ e.dma = d.dma /\ e.pacer = d.pacer
  /\ e.error = d.error

LEMMA StopPhaseType ==
  ASSUME scans \in Nat, NEW d, IsPde(d), NEW acquired \in Int
  PROVE  /\ IsPde(StopPhase(d, acquired))
         /\ SameControl(d, StopPhase(d, acquired)) \/ Quiet(StopPhase(d, acquired))
<1> DEFINE c == CheckForStop(d, acquired)
<1>1. IsPde(c.d) /\ SameControl(d, c.d)
  BY CheckForStopType DEF SameControl, Kept
<1>2. IsPde(OnStop(c.d)) /\ Quiet(OnStop(c.d))
  BY <1>1, OnStopType
<1>3. IsPde(CopyNewScans(c.d, acquired)) /\ SameControl(d, CopyNewScans(c.d, acquired))
  BY <1>1, CopyNewScansType DEF SameControl, Kept
<1>4. SameControl(d, d)
  BY DEF SameControl
<1>5. StopPhase(d, acquired) \in {d, OnStop(c.d), CopyNewScans(c.d, acquired)}
  BY DEF StopPhase
<1> QED BY <1>2, <1>3, <1>4, <1>5

LEMMA TriggerPhaseType ==
  ASSUME scans \in Nat, NEW d, IsPde(d), NEW acquired \in Int
  PROVE  /\ IsPde(TriggerPhase(d, acquired))
         /\ SameControl(d, TriggerPhase(d, acquired)) \/ Quiet(TriggerPhase(d, acquired))
<1> DEFINE c == CheckForTrigger(d, acquired)
           t == OnTrigger(c.d)
           s == StopPhase(t, c.d.current - c.d.trigScan + 1)
<1>1. IsPde(c.d) /\ SameControl(d, c.d)
  BY CheckForTriggerType DEF SameControl, Kept
<1>2. c.d.current - c.d.trigScan + 1 \in Int
  BY <1>1 DEF IsPde, Counts
<1>3. IsPde(t) /\ SameControl(d, t)
  BY <1>1, OnTriggerType DEF SameControl
<1>4. IsPde(s) /\ (SameControl(d, s) \/ Quiet(s))
  <2>1. IsPde(s) /\ (SameControl(t, s) \/ Quiet(s))
    <3> HIDE DEF t, c
    <3> QED BY <1>2, <1>3, StopPhaseType
  <2> QED BY <1>3, <2>1 DEF SameControl
<1>5. SameControl(d, d)
  BY DEF SameControl
<1>6. TriggerPhase(d, acquired) \in {d, s, c.d}
  BY DEF TriggerPhase
<1> QED BY <1>1, <1>4, <1>5, <1>6

LEMMA CallbackType ==
  ASSUME scans \in Nat, fault \in BOOLEAN, NEW d, IsPde(d), NEW lag \in Nat
  PROVE  LET e == CheckEventsAndMoveData(d, lag)
         IN  IsPde(e) /\ (SameControl(d, e) \/ Quiet(e))
<1> DEFINE e == ComputeScansAcquired(d, lag)
           acquired == e.current - e.last
           g == AdcCheckFatalErrors(e, acquired)
           out == CheckEventsAndMoveData(d, lag)
<1> SUFFICES IsPde(out) /\ (SameControl(d, out) \/ Quiet(out))
  OBVIOUS
<1>1. IsPde(e) /\ SameControl(d, e)
  BY ComputeType DEF SameControl, Kept
<1>2. acquired \in Int
  BY <1>1 DEF IsPde, Counts
<1>3. out = IF fault \/ Overrun(e, acquired) THEN g
            ELSE IF g.event = "TRIGGER" THEN TriggerPhase(g, acquired)
            ELSE StopPhase(g, acquired)
  BY DEF CheckEventsAndMoveData
<1> HIDE DEF e, acquired, out
<1>4. /\ IsPde(g)
      /\ fault \/ Overrun(e, acquired) => Quiet(g)
      /\ ~(fault \/ Overrun(e, acquired)) => SameControl(d, g)
  BY <1>1, <1>2, FatalErrorsType DEF SameControl, Kept
<1> HIDE DEF g
<1>5. CASE fault \/ Overrun(e, acquired)
  BY <1>3, <1>4, <1>5
<1>6. CASE ~(fault \/ Overrun(e, acquired))
  <2>1. \/ out = TriggerPhase(g, acquired)
        \/ out = StopPhase(g, acquired)
    BY <1>3, <1>6
  <2>2. IsPde(out) /\ (SameControl(g, out) \/ Quiet(out))
    BY <1>2, <1>4, <2>1, TriggerPhaseType, StopPhaseType
  <2> QED BY <1>4, <1>6, <2>2 DEF SameControl
<1> QED BY <1>5, <1>6
-----------------------------------------------------------------------------
LEMMA WithArgType ==
  ASSUME NEW d, IsPde(d)
  PROVE  IsPde(WithArg(d)) /\ Kept(d, WithArg(d)) /\ WithArg(d).die = d.die
<1> DEFINE buf == [p \in Cells |-> IF p < ArgScans THEN Arg ELSE d.buf[p]]
<1>1. buf \in [Cells -> Nat \cup {Arg}]
  BY DEF IsPde
<1>2. WithArg(d) = [d EXCEPT !.buf = buf]
  BY DEF WithArg
<1> HIDE DEF buf
<1> QED BY <1>1, <1>2 DEF Kept, IsPde, Flags, Counts, Others

LEMMA RearmedType ==
  ASSUME NEW d, IsPde(d)
  PROVE  /\ IsPde(Rearmed(d)) /\ Rearmed(d).running = d.running
         /\ Rearmed(d).error = d.error /\ Rearmed(d).die = d.die
<1> DEFINE s == d.pre % RingScans
<1>1. s \in 0..(RingScans - 1) /\ 0 \in 0..(RingScans - 1)
  <2>1. d.pre \in Int /\ RingScans \in Nat \ {0}
    BY SizesAssumption DEF IsPde
  <2>2. s \in 0..(RingScans - 1)
    BY <2>1, ModRange, Zenon
  <2>3. 0 \in 0..(RingScans - 1)
    BY <2>1
  <2> QED BY <2>2, <2>3
<1>2. d.pre \in Int /\ d.post \in Int
  BY DEF IsPde
<1>3. Rearmed(d) =
        [d EXCEPT !.event = "TRIGGER", !.trigCount = d.pre, !.stopCount = d.post,
            !.trigSw = FALSE, !.trigHw = FALSE, !.stopSw = FALSE,
            !.read = 0, !.current = 0, !.last = 0, !.lastPass = 0,
            !.toMove = 0, !.inUser = 0, !.head = 0, !.search = s,
            !.sent = 0, !.dropped = 0, !.stale = FALSE]
  BY DEF Rearmed
<1> HIDE DEF s
<1>4. IsPde(Rearmed(d))
  <2> DEFINE e == Rearmed(d)
  <2> SUFFICES IsPde(e)
    OBVIOUS
  <2>1. DOMAIN e = DOMAIN d
    BY <1>3
  <2>2. \A x \in Flags : e[x] \in BOOLEAN
    <3>1. \A x \in {"trigSw", "trigHw", "stopSw", "stale"} : e[x] = FALSE
      BY <1>3 DEF IsPde, Flags, Counts, Others
    <3>2. \A x \in Flags \ {"trigSw", "trigHw", "stopSw", "stale"} : e[x] = d[x]
      BY <1>3 DEF IsPde, Flags, Counts, Others
    <3> HIDE DEF e
    <3> QED BY <3>1, <3>2 DEF IsPde
  <2>3. \A x \in Counts : e[x] \in Int
    <3>1. e.trigCount = d.pre /\ e.stopCount = d.post
      BY <1>3 DEF IsPde, Flags, Counts, Others
    <3>2. \A x \in {"trigScan", "stopScan", "first"} : e[x] = d[x]
      BY <1>3 DEF IsPde, Flags, Counts, Others
    <3>3. \A x \in Counts \ {"trigCount", "stopCount", "trigScan", "stopScan", "first"} :
            e[x] = 0
      BY <1>3 DEF IsPde, Flags, Counts, Others
    <3> HIDE DEF e
    <3> QED BY <1>2, <3>1, <3>2, <3>3 DEF IsPde, Counts
  <2>4. /\ e.error = d.error /\ e.source = d.source /\ e.stop = d.stop
        /\ e.pre = d.pre /\ e.post = d.post /\ e.buf = d.buf /\ e.size = d.size
        /\ e.userHead = d.userHead /\ e.pacer = d.pacer
    BY <1>3, SMTT(30) DEF IsPde, Flags, Counts, Others
  <2>5. e.event = "TRIGGER" /\ e.head = 0 /\ e.search = s
    BY <1>3, SMTT(30) DEF IsPde, Flags, Counts, Others
  <2> HIDE DEF e
  <2> QED BY <1>1, <2>1, <2>2, <2>3, <2>4, <2>5 DEF IsPde, Events
<1>5. Rearmed(d).running = d.running /\ Rearmed(d).error = d.error /\ Rearmed(d).die = d.die
  BY <1>3, SMTT(30) DEF IsPde, Flags, Counts, Others
<1> QED BY <1>4, <1>5

(* The invariant that both theorems rest on: what the driver tells the     *)
(* program agrees with what it has left running.                           *)
Control(d) ==
  /\ d.error # "None" => Quiet(d)
  /\ d.acqActive => d.dma /\ (d.running \/ d.die)

IInv == TypeOK /\ Control(pde)

LEMMA InitIInv == Init => IInv
<1> SUFFICES ASSUME Init PROVE IInv
  OBVIOUS
<1>1. IsPde(InitPde) /\ Control(InitPde)
  BY SizesAssumption DEF InitPde, IsPde, Flags, Counts, Others, Events, Sources,
     StopSources, Cells, Empty, Control, Quiet
<1>2. pde = InitPde /\ scans = 0 /\ fault = FALSE /\ call = Idle
  BY DEF Init
<1>3. call \in [at: Steps, n: Int, full: BOOLEAN, event: Events]
  BY <1>2 DEF Idle, Steps, Events
<1>4. hist \in [raced: BOOLEAN, arms: Nat,
               armed: [source: Sources, stop: StopSources, pre: Nat, post: Nat]]
  BY DEF Init, Sources, StopSources
<1> QED BY <1>1, <1>2, <1>3, <1>4 DEF IInv, TypeOK

(* A step of an ioctl that leaves scans, fault, call and hist alone.       *)
LEMMA OneStepIInv ==
  ASSUME IInv, NEW d, OneStep(d), IsPde(d), Control(d)
  PROVE  IInv'
BY DEF OneStep, IInv, TypeOK

LEMMA KeptControl ==
  ASSUME NEW d, Control(d), NEW e, Kept(d, e), d.die => e.die
  PROVE  Control(e)
BY DEF Control, Kept, Quiet

LEMMA QuietControl ==
  ASSUME NEW d, Quiet(d)
  PROVE  Control(d)
BY DEF Control, Quiet

(* The locals of the ioctl that is in progress.                            *)
Calls == [at: Steps, n: Int, full: BOOLEAN, event: Events]

LEMMA BeginCall ==
  ASSUME NEW a \in Steps, NEW e \in Events
  PROVE  [Idle EXCEPT !.at = a] \in Calls /\ [Idle EXCEPT !.at = a, !.event = e] \in Calls
<1> DEFINE c == [Idle EXCEPT !.at = a]
<1>1. Idle \in Calls
  BY DEF Idle, Calls, Steps, Events
<1>2. c \in Calls
  BY <1>1 DEF Calls
<1> HIDE DEF c
<1>3. [c EXCEPT !.event = e] \in Calls
  BY <1>2 DEF Calls
<1>4. [Idle EXCEPT !.at = a, !.event = e] = [c EXCEPT !.event = e]
  BY DEF c
<1> QED BY <1>2, <1>3, <1>4 DEF c

LEMMA SetCall ==
  ASSUME NEW c \in Calls, NEW a \in Steps, NEW n \in Int, NEW b \in BOOLEAN
  PROVE  /\ [c EXCEPT !.at = a, !.n = n] \in Calls
         /\ [c EXCEPT !.at = a, !.n = n, !.full = b] \in Calls
<1> DEFINE e == [c EXCEPT !.at = a]
           g == [e EXCEPT !.n = n]
<1>1. e \in Calls
  BY DEF Calls
<1> HIDE DEF e
<1>2. g \in Calls
  BY <1>1 DEF Calls
<1> HIDE DEF g
<1>3. [g EXCEPT !.full = b] \in Calls
  BY <1>2 DEF Calls
<1>4. [c EXCEPT !.at = a, !.n = n] = g /\ [c EXCEPT !.at = a, !.n = n, !.full = b] = [g EXCEPT !.full = b]
  BY DEF g, e
<1> QED BY <1>2, <1>3, <1>4

LEMMA TimerStep == IInv /\ AdcEventL => IInv'
<1> SUFFICES ASSUME IInv, AdcEventL PROVE IInv'
  OBVIOUS
<1>1. IsPde(pde) /\ Control(pde) /\ scans \in Nat /\ fault \in BOOLEAN /\ pde.running
  BY DEF IInv, TypeOK, AdcEventL
<1>2. TypeOK' <=> IsPde(pde')
  BY Zenon DEF IInv, TypeOK, AdcEventL, Harmful
<1>3. CASE pde.die \/ ~pde.dma
  <2>1. pde' = [pde EXCEPT !.running = FALSE]
    BY <1>3 DEF AdcEventL
  <2> QED BY <1>1, <1>2, <1>3, <2>1 DEF IInv, Control, Quiet, IsPde, Flags, Counts, Others
<1>4. CASE ~pde.die /\ pde.dma
  <2>1. PICK lag \in 0..FifoScans :
          LET d == CheckEventsAndMoveData(pde, lag) IN pde' = [d EXCEPT !.running = d.dma]
    BY <1>4 DEF AdcEventL
  <2> DEFINE d == CheckEventsAndMoveData(pde, lag)
  <2>2. IsPde(d) /\ (SameControl(pde, d) \/ Quiet(d))
    BY <1>1, CallbackType
  <2>3. pde' = [d EXCEPT !.running = d.dma]
    BY <2>1
  <2> HIDE DEF d
  <2>4. IsPde(pde')
    BY <2>2, <2>3 DEF IsPde, Flags, Counts, Others
  <2>5. Control(pde')
    BY <1>1, <1>4, <2>2, <2>3 DEF SameControl, Control, Quiet, IsPde, Flags, Counts, Others
  <2> QED BY <1>2, <2>4, <2>5 DEF IInv
<1> QED BY <1>3, <1>4 DEF IInv, TypeOK, IsPde, Flags

LEMMA ProgramStep == IInv /\ Program => IInv'
<1> SUFFICES ASSUME IInv, Program PROVE IInv'
  OBVIOUS
<1>0. IsPde(pde) /\ Control(pde) /\ scans \in Nat /\ fault \in BOOLEAN
  BY DEF IInv, TypeOK
<1> DEFINE w == WithArg(pde)
<1>w. IsPde(w) /\ Kept(pde, w) /\ w.die = pde.die /\ Control(w)
  BY <1>0, WithArgType, KeptControl
<1> HIDE DEF w
<1>1. CASE AdcConfigure
  <2>1. CASE OneStep([w EXCEPT !.configured = FALSE])
    <3> DEFINE e == [w EXCEPT !.configured = FALSE]
    <3>1. IsPde(e) /\ Control(e)
      BY <1>w DEF Control, Quiet, IsPde, Flags, Counts, Others
    <3> QED BY <2>1, <3>1, OneStepIInv
  <2>2. ASSUME NEW c \in Configs,
               OneStep([w EXCEPT !.configured = FALSE,
                                 !.source = c.source, !.stop = c.stop])
        PROVE  IInv'
    <3> DEFINE e == [w EXCEPT !.configured = FALSE,
                              !.source = c.source, !.stop = c.stop]
    <3>1. c.source \in Sources /\ c.stop \in StopSources
      BY RequestsAssumption
    <3>2. IsPde(e) /\ Control(e)
      BY <1>w, <3>1 DEF Control, Quiet, IsPde, Flags, Counts, Others
    <3> QED BY <2>2, <3>2, OneStepIInv
  <2>3. ASSUME NEW c \in Configs,
               OneStep([w EXCEPT !.configured = TRUE,
                           !.source = c.source, !.stop = c.stop,
                           !.pre = c.pre, !.post = c.post,
                           !.trigCount = c.pre, !.stopCount = c.post])
        PROVE  IInv'
    <3> DEFINE e == [w EXCEPT !.configured = TRUE,
                           !.source = c.source, !.stop = c.stop,
                           !.pre = c.pre, !.post = c.post,
                           !.trigCount = c.pre, !.stopCount = c.post]
    <3>1. c.source \in Sources /\ c.stop \in StopSources /\ c.pre \in Nat /\ c.post \in Nat
      BY RequestsAssumption
    <3>2. IsPde(e)
      BY <1>w, <3>1, SMTT(30) DEF IsPde, Flags, Counts, Others
    <3>3. Control(e)
      BY <1>w, SMTT(30) DEF Control, Quiet, IsPde, Flags, Counts, Others
    <3> QED BY <2>3, <3>2, <3>3, OneStepIInv
  <2> QED BY <1>1, <2>1, <2>2, <2>3 DEF AdcConfigure, w
<1>2. CASE AdcArmBegin
  <2>1. CASE OneStep(w)
    BY <1>w, <2>1, OneStepIInv
  <2>2. CASE ~OneStep(w)
    <3> DEFINE e == AdcDisarm(w)
    <3>1. pde' = [e EXCEPT !.die = e.die \/ pde.running]
          /\ call' = [Idle EXCEPT !.at = "armWait"] /\ UNCHANGED <<scans, fault, hist>>
      BY <1>2, <2>2 DEF AdcArmBegin, w
    <3>2. IsPde(e) /\ Quiet(e)
      BY <1>w, DisarmType
    <3>3. pde.running \in BOOLEAN /\ e.die \in BOOLEAN
      BY <1>0, <3>2 DEF IsPde, Flags
    <3> HIDE DEF e
    <3>4. IsPde(pde') /\ Control(pde')
      BY <3>1, <3>2, <3>3 DEF Control, Quiet, IsPde, Flags, Counts, Others
    <3>5. call' \in Calls
      BY <3>1, BeginCall DEF Steps, Events
    <3> QED BY <3>1, <3>4, <3>5 DEF IInv, TypeOK, Calls
  <2> QED BY <2>1, <2>2
<1>3. CASE AdcDisarmCall
  <2>1. IsPde(AdcDisarm(w)) /\ Control(AdcDisarm(w))
    BY <1>w, DisarmType, QuietControl
  <2> QED BY <1>3, <2>1, OneStepIInv DEF AdcDisarmCall, w
<1>4. CASE AdcStopCall
  <2>1. IsPde(AdcStop(w)) /\ Control(AdcStop(w))
    BY <1>w, StopType, KeptControl
  <2> QED BY <1>4, <2>1, OneStepIInv DEF AdcStopCall, w
<1>5. CASE AdcGetStatus
  <2>1. IsPde([w EXCEPT !.error = "None"]) /\ Control([w EXCEPT !.error = "None"])
    BY <1>w DEF Control, Quiet, IsPde, Flags, Counts, Others
  <2> QED BY <1>5, <2>1, OneStepIInv DEF AdcGetStatus, w
<1>6. CASE AdcStartBegin
  <2>1. CASE OneStep(w)
    BY <1>w, <2>1, OneStepIInv
  <2>2. CASE ~OneStep(w)
    <3>1. /\ pde' = [w EXCEPT !.userOpen = TRUE]
          /\ call' = [Idle EXCEPT !.at = "startOpen"] /\ UNCHANGED <<scans, fault, hist>>
      BY <1>6, <2>2 DEF AdcStartBegin, w
    <3>2. IsPde(pde') /\ Control(pde')
      BY <1>w, <3>1, SMTT(30) DEF Control, Quiet, IsPde, Flags, Counts, Others
    <3>3. call' \in Calls
      BY <3>1, BeginCall DEF Steps, Events
    <3> QED BY <3>1, <3>2, <3>3 DEF IInv, TypeOK, Calls
  <2> QED BY <2>1, <2>2
<1>7. CASE AdcSoftTrigScan
  <2>1. CASE OneStep(w)
    BY <1>w, <2>1, OneStepIInv
  <2>2. CASE ~OneStep(w)
    <3>1. PICK lag \in 0..FifoScans :
            LET r == ReadAcqScanCounter(w, lag)
            IN  pde' = [r EXCEPT
                     !.trigScan = IF r.event = "TRIGGER" THEN r.read ELSE @,
                     !.stopScan = IF r.event = "STOP" THEN r.read ELSE @]
      BY <1>7, <2>2 DEF AdcSoftTrigScan, w
    <3>2. call' = [Idle EXCEPT !.at = "trigFlag", !.event = pde.event]
          /\ UNCHANGED <<scans, fault, hist>>
      BY <1>7, <2>2 DEF AdcSoftTrigScan, w
    <3> DEFINE r == ReadAcqScanCounter(w, lag)
    <3>3. IsPde(r) /\ Control(r)
      BY <1>0, <1>w, ReadType, KeptControl
    <3>4. pde' = [r EXCEPT !.trigScan = IF r.event = "TRIGGER" THEN r.read ELSE r.trigScan,
                           !.stopScan = IF r.event = "STOP" THEN r.read ELSE r.stopScan]
      BY <3>1
    <3> HIDE DEF r
    <3>5. IsPde(pde') /\ Control(pde')
      BY <3>3, <3>4, SMTT(30) DEF Control, Quiet, IsPde, Flags, Counts, Others
    <3>6. call' \in Calls
      BY <1>0, <3>2, BeginCall DEF Steps, IsPde
    <3> QED BY <3>2, <3>5, <3>6 DEF IInv, TypeOK, Calls
  <2> QED BY <2>1, <2>2
<1> QED BY <1>1, <1>2, <1>3, <1>4, <1>5, <1>6, <1>7 DEF Program

LEMMA ContinueStep == IInv /\ Continue => IInv'
<1> SUFFICES ASSUME IInv, Continue PROVE IInv'
  OBVIOUS
<1>0. IsPde(pde) /\ Control(pde) /\ scans \in Nat /\ fault \in BOOLEAN /\ call \in Calls
  BY DEF IInv, TypeOK, Calls
<1>i. Idle \in Calls
  BY DEF Idle, Calls, Steps, Events
<1>1. CASE AdcArmTimeout
  BY <1>1, <1>i DEF AdcArmTimeout, IInv, TypeOK, Calls
<1>2. CASE AdcArmInitFailure
  <2>1. pde' = AdcDisarm(Rearmed(pde)) /\ call' = Idle /\ scans' = 0 /\ fault' = FALSE
        /\ UNCHANGED hist
    BY <1>2 DEF AdcArmInitFailure
  <2>2. IsPde(pde') /\ Control(pde')
    BY <1>0, <2>1, RearmedType, DisarmType, QuietControl
  <2> QED BY <1>i, <2>1, <2>2 DEF IInv, TypeOK, Calls
<1>3. CASE AdcArmDone
  <2> DEFINE r == Rearmed(pde)
             p == IF pde.source = "Hardware" THEN "waiting" ELSE "on"
  <2>1. pde' = [r EXCEPT !.pacer = p, !.dma = TRUE, !.acqActive = TRUE, !.error = "None",
                         !.running = TRUE, !.die = FALSE]
        /\ call' = Idle /\ scans' = 0 /\ fault' = FALSE
    BY <1>3 DEF AdcArmDone
  <2>2. IsPde(r) /\ p \in {"off", "waiting", "on"}
    BY <1>0, RearmedType
  <2> HIDE DEF r, p
  <2>3. IsPde(pde') /\ Control(pde')
    BY <2>1, <2>2, SMTT(30) DEF Control, Quiet, IsPde, Flags, Counts, Others
  <2>5. hist' = [raced |-> hist.raced, arms |-> hist.arms + 1,
                 armed |-> [source |-> pde.source, stop |-> pde.stop,
                            pre |-> pde.pre, post |-> pde.post]]
    BY <1>3 DEF AdcArmDone, IInv, TypeOK
  <2>6. hist' \in [raced: BOOLEAN, arms: Nat,
               armed: [source: Sources, stop: StopSources, pre: Nat, post: Nat]]
    BY <1>0, <2>5 DEF IInv, TypeOK, IsPde
  <2> QED BY <1>i, <2>1, <2>3, <2>6 DEF IInv, TypeOK, Calls
<1>4. CASE AdcStartTake
  <2>1. pde.toMove \in Int
    BY <1>0 DEF IsPde, Counts
  <2>2. call' = Idle \/ call' = [call EXCEPT !.at = "startCopy", !.n = pde.toMove]
    BY <1>4 DEF AdcStartTake
  <2>3. call' \in Calls
    <3>1. "startCopy" \in Steps /\ FALSE \in BOOLEAN
      BY DEF Steps
    <3> QED BY <1>0, <1>i, <2>1, <2>2, <3>1, SetCall, Zenon
  <2>4. pde' = pde \/ pde' = [pde EXCEPT !.toMove = 0]
    BY <1>4 DEF AdcStartTake
  <2>5. IsPde(pde') /\ Control(pde')
    BY <1>0, <2>4 DEF Control, Quiet, IsPde, Flags, Counts, Others
  <2> QED BY <1>4, <2>3, <2>5 DEF AdcStartTake, IInv, TypeOK, Calls
<1>5. CASE AdcStartCopy
  <2> DEFINE n == call.n
             m == Room(pde, n)
             kept == IF Fills(pde, n) THEN [pde EXCEPT !.toMove = n - m] ELSE pde
  <2>1. n \in Int
    BY <1>0 DEF Calls
  <2>2. m \in Int
    BY <1>0, <2>1 DEF Room, IsPde, Counts
  <2>3. pde' \in {[pde EXCEPT !.toMove = pde.toMove + n], [pde EXCEPT !.wild = TRUE],
                  MemCopy(kept, m)}
    BY <1>5 DEF AdcStartCopy
  <2>4. \/ call' = [call EXCEPT !.at = "startEnd", !.n = 0]
        \/ call' = [call EXCEPT !.at = "startAdvance", !.n = m, !.full = Fills(pde, n)]
    BY <1>5 DEF AdcStartCopy
  <2>5. Fills(pde, n) \in BOOLEAN
    BY DEF Fills
  <2>6. call' \in Calls
    <3>1. "startEnd" \in Steps /\ "startAdvance" \in Steps /\ 0 \in Int
      BY DEF Steps
    <3> HIDE DEF n, m
    <3>2. CASE call' = [call EXCEPT !.at = "startEnd", !.n = 0]
      BY <1>0, <2>5, <3>1, <3>2, SetCall, Zenon
    <3>3. CASE call' = [call EXCEPT !.at = "startAdvance", !.n = m, !.full = Fills(pde, n)]
      BY <1>0, <2>2, <2>5, <3>1, <3>3, SetCall, Zenon
    <3> QED BY <2>4, <3>2, <3>3
  <2> HIDE DEF n, m
  <2>7. IsPde(kept) /\ Kept(pde, kept) /\ kept.die = pde.die
    BY <1>0, <2>1, <2>2 DEF Kept, IsPde, Flags, Counts, Others
  <2> HIDE DEF kept
  <2>8. IsPde(MemCopy(kept, m)) /\ Control(MemCopy(kept, m))
    BY <1>0, <2>2, <2>7, MemCopyType, KeptControl
  <2>9. IsPde(pde') /\ Control(pde')
    <3>1. CASE pde' = [pde EXCEPT !.toMove = pde.toMove + n]
      BY <1>0, <2>1, <3>1 DEF Control, Quiet, IsPde, Flags, Counts, Others
    <3>2. CASE pde' = [pde EXCEPT !.wild = TRUE]
      BY <1>0, <3>2 DEF Control, Quiet, IsPde, Flags, Counts, Others
    <3> QED BY <2>3, <2>8, <3>1, <3>2
  <2> QED BY <1>5, <2>6, <2>9 DEF AdcStartCopy, IInv, TypeOK, Calls
<1>6. CASE AdcStartAdvance
  <2> DEFINE d == Advance(pde, call.n)
  <2>1. /\ pde' \in {d, AdcStop(d), [pde EXCEPT !.wild = TRUE]}
        /\ call' = [call EXCEPT !.at = "startEnd", !.n = 0]
        /\ UNCHANGED <<scans, fault, hist>>
    BY <1>6 DEF AdcStartAdvance
  <2>2. IsPde(d) /\ Kept(pde, d) /\ d.die = pde.die
    BY <1>0, AdvanceType DEF Calls
  <2> HIDE DEF d
  <2>5. IsPde([pde EXCEPT !.wild = TRUE]) /\ Control([pde EXCEPT !.wild = TRUE])
    BY <1>0 DEF Control, Quiet, IsPde, Flags, Counts, Others
  <2>3. IsPde(pde') /\ Control(pde')
    BY <1>0, <2>1, <2>2, <2>5, StopType, KeptControl
  <2>4. call' \in Calls
    <3>1. "startEnd" \in Steps /\ 0 \in Int /\ FALSE \in BOOLEAN
      BY DEF Steps
    <3> QED BY <1>0, <2>1, <3>1, SetCall, Zenon
  <2> QED BY <2>1, <2>3, <2>4 DEF IInv, TypeOK, Calls
<1>7. CASE AdcStartEnd
  <2>1. pde' \in {pde, AdcStop(pde)} /\ call' = Idle /\ UNCHANGED <<scans, fault, hist>>
    BY <1>7 DEF AdcStartEnd
  <2>2. IsPde(pde') /\ Control(pde')
    BY <1>0, <2>1, StopType, KeptControl
  <2> QED BY <1>i, <2>1, <2>2 DEF IInv, TypeOK, Calls
<1>8. CASE AdcSoftTrigFlag
  <2>1. PICK e \in {call.event, pde.event} :
          pde' = [pde EXCEPT !.trigSw = pde.trigSw \/ e = "TRIGGER",
                             !.stopSw = pde.stopSw \/ e = "STOP"]
    BY <1>8 DEF AdcSoftTrigFlag
  <2>2. call' = Idle /\ UNCHANGED <<scans, fault, hist>>
    BY <1>8 DEF AdcSoftTrigFlag
  <2>3. (pde.trigSw \/ e = "TRIGGER") \in BOOLEAN /\ (pde.stopSw \/ e = "STOP") \in BOOLEAN
    BY <1>0 DEF IsPde, Flags
  <2>4. IsPde(pde') /\ Control(pde')
    BY <1>0, <2>1, <2>3 DEF Control, Quiet, IsPde, Flags, Counts, Others
  <2> QED BY <1>i, <2>2, <2>4 DEF IInv, TypeOK, Calls
<1>9. CASE AdcStartActive
  <2>1. PICK t \in Transfers :
          pde' = [pde EXCEPT !.size = t.size, !.cyclic = t.cyclic, !.userHead = 0,
                    !.inUser = 0, !.transferActive = TRUE]
    BY <1>9 DEF AdcStartActive
  <2>2. call' = [call EXCEPT !.at = "startTake"] /\ UNCHANGED <<scans, fault, hist>>
    BY <1>9 DEF AdcStartActive
  <2>3. t.size \in 1..InBufScans /\ t.cyclic \in BOOLEAN /\ 0 \in Cells
    BY RequestsAssumption, SizesAssumption DEF Cells
  <2>4. IsPde(pde')
    BY <1>0, <2>1, <2>3, SMTT(30) DEF IsPde, Flags, Counts, Others
  <2>5. Control(pde')
    BY <1>0, <2>1, SMTT(30) DEF Control, Quiet, IsPde, Flags, Counts, Others
  <2>6. call' \in Calls
    BY <1>0, <2>2 DEF Calls, Steps
  <2> QED BY <2>2, <2>4, <2>5, <2>6 DEF IInv, TypeOK, Calls
<1> QED BY <1>1, <1>2, <1>3, <1>4, <1>5, <1>6, <1>7, <1>8, <1>9 DEF Continue

LEMMA BoardStep == IInv /\ Board => IInv'
<1> SUFFICES ASSUME IInv, Board PROVE IInv'
  OBVIOUS
<1>1. CASE BoardScan
  BY <1>1 DEF BoardScan, IInv, TypeOK
<1>2. CASE BoardTrigger
  <2>1. IsPde(pde') /\ Control(pde')
    BY <1>2 DEF BoardTrigger, IInv, TypeOK, Control, Quiet, IsPde, Flags, Counts, Others
  <2> QED BY <1>2, <2>1 DEF BoardTrigger, IInv, TypeOK
<1>3. CASE BoardFault
  BY <1>3 DEF BoardFault, IInv, TypeOK
<1> QED BY <1>1, <1>2, <1>3 DEF Board

LEMMA NextIInv == IInv /\ [Next]_vars => IInv'
<1> SUFFICES ASSUME IInv, [Next]_vars PROVE IInv'
  OBVIOUS
<1>1. CASE UNCHANGED vars \/ Undefined
  BY <1>1 DEF Undefined, vars, IInv, TypeOK
<1>2. CASE AdcEventL \/ Program \/ Continue \/ Board
  BY <1>2, TimerStep, ProgramStep, ContinueStep, BoardStep
<1> QED BY <1>1, <1>2 DEF Next

LEMMA Invariance == Spec => []IInv
<1> QED BY InitIInv, NextIInv, PTL DEF Spec

(* Every variable keeps its type, for every ring, buffer and request; in   *)
(* particular the heads and the search pointer never leave their buffers.  *)
THEOREM TypeCorrect == Spec => []TypeOK
<1>1. IInv => TypeOK
  BY DEF IInv
<1> QED BY <1>1, Invariance, PTL

(* A fatal error leaves nothing running until the program has read it or   *)
(* armed again, whatever ioctl was in progress (adcCheckFatalErrors).      *)
THEOREM ErrorsQuiesce == Spec => []ErrorQuiesces
<1>1. IInv => ErrorQuiesces
  BY DEF IInv, Control, Quiet, ErrorQuiesces
<1> QED BY <1>1, Invariance, PTL

(* An acquisition that the program sees as active has its DMA on and its   *)
(* timer pending, unless adcStop has told the timer to die.                *)
THEOREM ActiveHasTimer == Spec => []OnlyStopKillsTimer
<1>1. IInv => OnlyStopKillsTimer
  BY DEF IInv, Control, OnlyStopKillsTimer
<1> QED BY <1>1, Invariance, PTL
-----------------------------------------------------------------------------
(* What copying scans leaves alone: events and counters, the request, what *)
(* the transfer was started with.                                          *)
SameEvents(d, e) ==
  /\ e.event = d.event
  /\ e.trigCount = d.trigCount /\ e.trigScan = d.trigScan
  /\ e.trigSw = d.trigSw /\ e.trigHw = d.trigHw
  /\ e.stopCount = d.stopCount /\ e.stopScan = d.stopScan /\ e.stopSw = d.stopSw

SameCounter(d, e) ==
  /\ e.read = d.read /\ e.current = d.current /\ e.last = d.last
  /\ e.lastPass = d.lastPass

SameRequest(d, e) ==
  /\ e.source = d.source /\ e.stop = d.stop /\ e.pre = d.pre /\ e.post = d.post
  /\ e.configured = d.configured
  /\ e.acqActive = d.acqActive /\ e.dma = d.dma /\ e.pacer = d.pacer

SameTransfer(d, e) ==
  /\ e.transferActive = d.transferActive /\ e.toMove = d.toMove
  /\ e.inUser = d.inUser /\ e.size = d.size /\ e.cyclic = d.cyclic
  /\ e.sent = d.sent /\ e.dropped = d.dropped /\ e.first = d.first
  /\ e.wild = d.wild /\ e.die = d.die /\ e.userOpen = d.userOpen

(* What copyNewScans does of n scans, when no length goes wrong.           *)
Copied(d, e, n) ==
  LET m == Room(d, n)
      xfer == d.transferActive
  IN  /\ SameEvents(d, e) /\ SameCounter(d, e) /\ SameRequest(d, e)
      /\ e.size = d.size /\ e.cyclic = d.cyclic /\ e.wild = d.wild
      /\ e.dropped = d.dropped /\ e.first = d.first
      /\ e.toMove = IF ~xfer THEN d.toMove + n ELSE IF Fills(d, n) THEN n - m ELSE d.toMove
      /\ e.sent = IF xfer THEN d.sent + m ELSE d.sent
      /\ e.inUser = IF xfer THEN d.inUser + m ELSE d.inUser
      /\ e.transferActive <=> xfer /\ ~Fills(d, n)
      /\ e.die <=> d.die \/ (xfer /\ Fills(d, n))
      /\ e.stale => d.stale \/ (n > 0 /\ xfer /\ NextWanted(d) + RingScans <= scans)
      /\ e.transferActive => e.userOpen

LEMMA MemCopyFields ==
  ASSUME NEW d, IsPde(d), NEW n \in Int
  PROVE  LET e == MemCopy(d, n)
         IN  /\ SameEvents(d, e) /\ SameCounter(d, e) /\ SameRequest(d, e)
             /\ SameTransfer(d, e)
             /\ e.stale = (d.stale \/ (n > 0 /\ NextWanted(d) + RingScans <= scans))
<1> DEFINE buf == [p \in Cells |->
                    IF p >= d.size \/ LastIn(n, p - d.userHead, d.size) < 1 THEN d.buf[p]
                    ELSE RingCell((d.head + LastIn(n, p - d.userHead, d.size) - 1) % RingScans)]
           stale == d.stale \/ (n > 0 /\ NextWanted(d) + RingScans <= scans)
<1>1. MemCopy(d, n) = [d EXCEPT !.buf = buf, !.stale = stale]
  BY DEF MemCopy
<1> HIDE DEF buf, stale
<1>2. LET e == [d EXCEPT !.buf = buf, !.stale = stale]
      IN  /\ SameEvents(d, e) /\ SameCounter(d, e) /\ SameRequest(d, e)
          /\ SameTransfer(d, e) /\ e.stale = stale
  BY SMTT(30) DEF SameEvents, SameCounter, SameRequest, SameTransfer, IsPde, Flags, Counts, Others
<1> QED BY <1>1, <1>2 DEF stale

LEMMA AdvanceFields ==
  ASSUME NEW d, IsPde(d), NEW n \in Int
  PROVE  LET e == Advance(d, n)
         IN  /\ SameEvents(d, e) /\ SameCounter(d, e) /\ SameRequest(d, e)
             /\ e.transferActive = d.transferActive /\ e.toMove = d.toMove
             /\ e.size = d.size /\ e.cyclic = d.cyclic
             /\ e.dropped = d.dropped /\ e.first = d.first
             /\ e.wild = d.wild /\ e.die = d.die /\ e.stale = d.stale
             /\ e.inUser = d.inUser + n /\ e.sent = d.sent + n
             /\ e.userOpen = d.userOpen
<1> DEFINE h == (d.head + n) % RingScans
           u == (d.userHead + n) % d.size
<1>1. Advance(d, n) = [d EXCEPT !.head = h, !.userHead = u,
                                !.inUser = d.inUser + n, !.sent = d.sent + n]
  BY DEF Advance
<1> HIDE DEF h, u
<1> QED BY <1>1, SMTT(30) DEF SameEvents, SameCounter, SameRequest, IsPde, Flags, Counts, Others

LEMMA StopFields ==
  ASSUME NEW d, IsPde(d)
  PROVE  LET e == AdcStop(d)
         IN  /\ SameEvents(d, e) /\ SameCounter(d, e) /\ SameRequest(d, e)
             /\ e.size = d.size /\ e.cyclic = d.cyclic
             /\ e.dropped = d.dropped /\ e.first = d.first
             /\ e.wild = d.wild /\ e.stale = d.stale
             /\ e.inUser = d.inUser /\ e.sent = d.sent /\ e.toMove = d.toMove
             /\ ~e.transferActive /\ e.die /\ ~e.userOpen
BY SMTT(30) DEF AdcStop, SameEvents, SameCounter, SameRequest, IsPde, Flags, Counts, Others

LEMMA CopyNewScansFields ==
  ASSUME scans \in Nat, NEW d, IsPde(d), NEW n \in Nat,
         ~d.cyclic => d.inUser <= d.size, d.transferActive => d.userOpen
  PROVE  Copied(d, CopyNewScans(d, n), n)
<1> DEFINE m == Room(d, n)
           kept == IF Fills(d, n) THEN [d EXCEPT !.toMove = n - m] ELSE d
           copied == MemCopy(kept, m)
           done == Advance(copied, m)
<1>1. m \in Nat /\ (Fills(d, n) <=> ~d.cyclic /\ d.inUser + n > d.size)
  BY DEF Room, Fills, IsPde, Counts
<1>2. CASE n = 0
  <2>1. CopyNewScans(d, n) = d /\ m = 0 /\ ~Fills(d, n)
    BY <1>1, <1>2 DEF CopyNewScans, OutOfBounds, Room, Fills, IsPde, Counts
  <2> QED BY <1>2, <2>1 DEF Copied, SameEvents, SameCounter, SameRequest, IsPde, Flags, Counts
<1>3. CASE n # 0 /\ ~d.transferActive
  <2>1. CopyNewScans(d, n) = [d EXCEPT !.toMove = d.toMove + n]
    BY <1>3 DEF CopyNewScans
  <2> QED BY <1>3, <2>1, SMTT(30)
          DEF Copied, SameEvents, SameCounter, SameRequest, IsPde, Flags, Counts, Others
<1>4. CASE n # 0 /\ d.transferActive
  <2>1. CopyNewScans(d, n) = IF Fills(d, n) THEN AdcStop(done) ELSE done
    BY <1>1, <1>4 DEF CopyNewScans, OutOfBounds
  <2> HIDE DEF m
  <2>2. /\ IsPde(kept) /\ SameEvents(d, kept) /\ SameCounter(d, kept) /\ SameRequest(d, kept)
        /\ SameTransfer([d EXCEPT !.toMove = IF Fills(d, n) THEN n - m ELSE d.toMove], kept)
    BY <1>1, SMTT(30)
       DEF SameEvents, SameCounter, SameRequest, SameTransfer, IsPde, Flags, Counts, Others
  <2>3. /\ kept.transferActive /\ kept.inUser = d.inUser /\ kept.size = d.size
        /\ kept.cyclic = d.cyclic /\ kept.sent = d.sent /\ kept.dropped = d.dropped
        /\ kept.first = d.first /\ kept.stale = d.stale /\ kept.wild = d.wild
        /\ kept.die = d.die /\ kept.userOpen
        /\ kept.toMove = IF Fills(d, n) THEN n - m ELSE d.toMove
    BY <1>4, <1>1, SMTT(30) DEF IsPde, Flags, Counts, Others
  <2> HIDE DEF kept
  <2>4. IsPde(copied)
    BY <1>1, <2>2, MemCopyType
  <2>5. /\ SameEvents(d, copied) /\ SameCounter(d, copied) /\ SameRequest(d, copied)
        /\ SameTransfer(kept, copied)
        /\ copied.stale = (d.stale \/ (m > 0 /\ NextWanted(d) + RingScans <= scans))
    BY <1>1, <2>2, <2>3, MemCopyFields DEF SameEvents, SameCounter, SameRequest, NextWanted
  <2> HIDE DEF copied
  <2>6. IsPde(done)
    BY <1>1, <2>4, AdvanceType
  <2>7. /\ SameEvents(d, done) /\ SameCounter(d, done) /\ SameRequest(d, done)
        /\ done.transferActive = kept.transferActive /\ done.toMove = kept.toMove
        /\ done.size = d.size /\ done.cyclic = d.cyclic
        /\ done.dropped = d.dropped /\ done.first = d.first
        /\ done.wild = d.wild /\ done.die = d.die /\ done.stale = copied.stale
        /\ done.inUser = d.inUser + m /\ done.sent = d.sent + m /\ done.userOpen
    <3>1. /\ SameEvents(copied, done) /\ SameCounter(copied, done) /\ SameRequest(copied, done)
          /\ done.transferActive = copied.transferActive /\ done.toMove = copied.toMove
          /\ done.size = copied.size /\ done.cyclic = copied.cyclic
          /\ done.dropped = copied.dropped /\ done.first = copied.first
          /\ done.wild = copied.wild /\ done.die = copied.die /\ done.stale = copied.stale
          /\ done.inUser = copied.inUser + m /\ done.sent = copied.sent + m
          /\ done.userOpen = copied.userOpen
      BY <1>1, <2>4, AdvanceFields
    <3> HIDE DEF done
    <3> QED BY <2>3, <2>5, <3>1 DEF SameEvents, SameCounter, SameRequest, SameTransfer
  <2> HIDE DEF done
  <2>8. m > 0 => n > 0
    BY <1>1, <1>4
  <2>9. CASE Fills(d, n)
    <3> DEFINE e == AdcStop(done)
    <3>1. /\ SameEvents(done, e) /\ SameCounter(done, e) /\ SameRequest(done, e)
          /\ e.size = done.size /\ e.cyclic = done.cyclic
          /\ e.dropped = done.dropped /\ e.first = done.first
          /\ e.wild = done.wild /\ e.stale = done.stale
          /\ e.inUser = done.inUser /\ e.sent = done.sent /\ e.toMove = done.toMove
          /\ ~e.transferActive /\ e.die
      BY <2>6, StopFields
    <3> HIDE DEF e
    <3>2. SameEvents(d, e) /\ SameCounter(d, e) /\ SameRequest(d, e)
      BY <2>7, <3>1 DEF SameEvents, SameCounter, SameRequest
    <3>3. e.stale => d.stale \/ (n > 0 /\ d.transferActive /\ NextWanted(d) + RingScans <= scans)
      BY <1>4, <2>5, <2>7, <2>8, <3>1
    <3>4. Copied(d, e, n)
      BY <1>4, <2>3, <2>7, <2>9, <3>1, <3>2, <3>3 DEF Copied, m
    <3> QED BY <2>1, <2>9, <3>4 DEF e
  <2>10. CASE ~Fills(d, n)
    <3>1. Copied(d, done, n)
      BY <1>4, <2>3, <2>5, <2>6, <2>7, <2>8, <2>10
         DEF Copied, m, SameEvents, SameCounter, SameRequest, IsPde, Flags
    <3> QED BY <2>1, <2>10, <3>1
  <2> QED BY <2>9, <2>10
<1> QED BY <1>2, <1>3, <1>4

LEMMA DisarmAcquisitionFields ==
  ASSUME NEW d, IsPde(d)
  PROVE  LET e == AdcDisarmAcquisition(d)
         IN  /\ SameEvents(d, e) /\ SameCounter(d, e) /\ SameTransfer(d, e)
             /\ e.source = d.source /\ e.stop = d.stop /\ e.pre = d.pre
             /\ e.post = d.post /\ e.configured = d.configured /\ e.stale = d.stale
BY SMTT(30) DEF AdcDisarmAcquisition, SameEvents, SameCounter, SameTransfer,
                IsPde, Flags, Counts, Others

LEMMA DisarmFields ==
  ASSUME NEW d, IsPde(d)
  PROVE  LET e == AdcDisarm(d)
         IN  /\ SameEvents(d, e) /\ SameCounter(d, e)
             /\ e.source = d.source /\ e.stop = d.stop /\ e.pre = d.pre
             /\ e.post = d.post /\ e.configured = d.configured /\ e.stale = d.stale
             /\ e.transferActive = d.transferActive /\ e.inUser = d.inUser
             /\ e.size = d.size /\ e.cyclic = d.cyclic /\ e.sent = d.sent
             /\ e.first = d.first /\ e.wild = d.wild /\ e.die = d.die
             /\ e.toMove = 0 /\ e.dropped = d.dropped + d.toMove
             /\ e.userOpen = d.userOpen
<1> DEFINE g == AdcDisarmAcquisition(d)
           e == AdcDisarm(d)
<1>1. IsPde(g)
  BY DisarmAcquisitionType
<1>2. /\ SameEvents(d, g) /\ SameCounter(d, g) /\ SameTransfer(d, g)
      /\ g.source = d.source /\ g.stop = d.stop /\ g.pre = d.pre
      /\ g.post = d.post /\ g.configured = d.configured /\ g.stale = d.stale
  BY DisarmAcquisitionFields
<1>3. e = [g EXCEPT !.dropped = g.dropped + d.toMove, !.toMove = 0]
  BY DEF AdcDisarm
<1> HIDE DEF g, e
<1>4. SameEvents(g, e) /\ SameCounter(g, e)
  BY <1>1, <1>3, SMTT(30) DEF SameEvents, SameCounter, IsPde, Flags, Counts, Others
<1>5. /\ e.source = g.source /\ e.stop = g.stop /\ e.pre = g.pre
      /\ e.post = g.post /\ e.configured = g.configured /\ e.stale = g.stale
      /\ e.transferActive = g.transferActive /\ e.inUser = g.inUser
      /\ e.size = g.size /\ e.cyclic = g.cyclic /\ e.sent = g.sent
      /\ e.first = g.first /\ e.wild = g.wild /\ e.die = g.die
      /\ e.toMove = 0 /\ e.dropped = g.dropped + d.toMove /\ e.userOpen = g.userOpen
  BY <1>1, <1>3, SMTT(30) DEF IsPde, Flags, Counts, Others
<1>6. SameEvents(d, e) /\ SameCounter(d, e)
  BY <1>2, <1>4 DEF SameEvents, SameCounter
<1>7. /\ e.source = d.source /\ e.stop = d.stop /\ e.pre = d.pre
      /\ e.post = d.post /\ e.configured = d.configured /\ e.stale = d.stale
      /\ e.transferActive = d.transferActive /\ e.inUser = d.inUser
      /\ e.size = d.size /\ e.cyclic = d.cyclic /\ e.sent = d.sent
      /\ e.first = d.first /\ e.wild = d.wild /\ e.die = d.die
      /\ e.toMove = 0 /\ e.dropped = d.dropped + d.toMove /\ e.userOpen = d.userOpen
  BY <1>2, <1>5 DEF SameTransfer
<1> QED BY <1>6, <1>7 DEF e

(* computeScansAcquired before the stop event: the reading only grows, and *)
(* never past the scans in the ring.                                       *)
LEMMA ComputeFields ==
  ASSUME scans \in Nat, NEW d, IsPde(d), d.event # "POSTSTOP", NEW lag \in Nat,
         d.current <= d.read, d.read <= scans
  PROVE  LET e == ComputeScansAcquired(d, lag)
         IN  /\ SameTransfer(d, e) /\ SameRequest(d, e) /\ e.stale = d.stale
             /\ e.event = d.event
             /\ e.trigCount = d.trigCount /\ e.trigScan = d.trigScan /\ e.trigSw = d.trigSw
             /\ e.stopCount = d.stopCount /\ e.stopScan = d.stopScan /\ e.stopSw = d.stopSw
             /\ e.lastPass = d.lastPass /\ e.last = d.current /\ e.current = e.read
             /\ d.read <= e.read /\ e.read <= scans
             /\ \/ e.trigHw \/ d.event # "TRIGGER" \/ d.source # "Hardware"
                \/ e.read = d.read
             /\ d.trigHw => e.trigHw
             /\ \/ scans <= e.current + lag
                \/ /\ d.event = "TRIGGER" /\ d.source = "Hardware" /\ ~d.trigHw
                   /\ e.read = d.read
<1> DEFINE waiting == d.event = "TRIGGER" /\ d.source = "Hardware" /\ ~d.trigHw
           read == AtLeast(d.read, scans - lag)
           hw == d.trigHw \/ waiting
           r == ReadAcqScanCounter(d, lag)
           e == ComputeScansAcquired(d, lag)
<1>1. /\ read \in Int /\ d.read <= read /\ read <= scans /\ scans <= read + lag
      /\ hw \in BOOLEAN
  BY DEF AtLeast, IsPde, Flags, Counts
<1>2. r = IF waiting /\ d.pacer # "on" THEN d ELSE [d EXCEPT !.read = read, !.trigHw = hw]
  BY DEF ReadAcqScanCounter
<1>3. e = [r EXCEPT !.last = d.current, !.current = r.read]
  BY DEF ComputeScansAcquired
<1> HIDE DEF read, r, e
<1>4. IsPde(r)
  BY ReadType DEF r
<1>5. /\ SameTransfer(d, r) /\ SameRequest(d, r) /\ r.stale = d.stale
      /\ r.event = d.event
      /\ r.trigCount = d.trigCount /\ r.trigScan = d.trigScan /\ r.trigSw = d.trigSw
      /\ r.stopCount = d.stopCount /\ r.stopScan = d.stopScan /\ r.stopSw = d.stopSw
      /\ r.lastPass = d.lastPass
  <2>1. CASE waiting /\ d.pacer # "on"
    BY <1>2, <2>1 DEF SameTransfer, SameRequest
  <2>2. CASE ~(waiting /\ d.pacer # "on")
    <3> HIDE DEF hw, waiting
    <3> QED BY <1>2, <2>2, SMTT(30) DEF SameTransfer, SameRequest, IsPde, Flags, Counts, Others
  <2> QED BY <2>1, <2>2
<1>6. /\ SameTransfer(r, e) /\ SameRequest(r, e) /\ e.stale = r.stale
      /\ e.event = r.event
      /\ e.trigCount = r.trigCount /\ e.trigScan = r.trigScan /\ e.trigSw = r.trigSw
      /\ e.stopCount = r.stopCount /\ e.stopScan = r.stopScan /\ e.stopSw = r.stopSw
      /\ e.lastPass = r.lastPass /\ e.last = d.current /\ e.current = r.read
      /\ e.read = r.read /\ e.trigHw = r.trigHw
  BY <1>3, <1>4, SMTT(30) DEF SameTransfer, SameRequest, IsPde, Flags, Counts, Others
<1>7. /\ d.read <= r.read /\ r.read <= scans
      /\ \/ r.trigHw \/ d.event # "TRIGGER" \/ d.source # "Hardware"
         \/ r.read = d.read
      /\ d.trigHw => r.trigHw
      /\ scans <= r.read + lag \/ (waiting /\ r.read = d.read)
  <2>1. CASE waiting /\ d.pacer # "on"
    BY <1>1, <1>2, <2>1 DEF IsPde, Counts
  <2>2. CASE ~(waiting /\ d.pacer # "on")
    <3>1. r.read = read /\ r.trigHw = hw
      <4> HIDE DEF hw, waiting
      <4> QED BY <1>2, <2>2 DEF IsPde, Flags, Counts, Others
    <3> QED BY <1>1, <3>1 DEF IsPde, Flags
  <2> QED BY <2>1, <2>2
<1>8. SameTransfer(d, e) /\ SameRequest(d, e) /\ e.stale = d.stale
  BY <1>5, <1>6 DEF SameTransfer, SameRequest
<1> QED BY <1>5, <1>6, <1>7, <1>8 DEF e
-----------------------------------------------------------------------------
(* The inductive invariant, of a record d that stands for pde.  It speaks  *)
(* of the runs in which no callback has hit a place where it does not      *)
(* commute with the ioctl in progress.                                     *)
Request(d) == [source |-> d.source, stop |-> d.stop, pre |-> d.pre, post |-> d.post]

(* The configuration in force is one that adcTestConfiguration let pass.   *)
Requested(d) ==
  /\ d.configured => Request(d) \in Configs
  /\ call.at = "armWait" => d.configured /\ ~d.acqActive
  /\ d.acqActive => hist.armed = Request(d) /\ hist.armed \in Configs
  /\ d.acqActive => d.event # "POSTSTOP"
  /\ d.dma => d.acqActive

(* adcStart has taken the scans that waited and not yet moved the heads.   *)
Holding == call.at \in {"startCopy", "startAdvance"}

(* Where the scans are: no length below zero, no more in the user's buffer *)
(* than it holds, and none waits while a transfer is active but for those  *)
(* that adcStart is about to take or has just left.                        *)
Held(d) ==
  /\ ~d.wild
  /\ d.toMove >= 0 /\ d.sent >= 0 /\ d.inUser >= 0 /\ d.dropped >= 0 /\ call.n >= 0
  /\ ~Holding => call.n = 0
  /\ d.event = "TRIGGER" => d.toMove = 0 /\ d.sent = 0 /\ d.dropped = 0 /\ ~Holding
  /\ d.acqActive => d.dropped = 0
  /\ ~d.cyclic => d.inUser <= d.size
  /\ d.transferActive => d.userOpen
  /\ call.at = "startOpen" => ~d.transferActive /\ d.configured
  /\ d.transferActive =>
       d.toMove = 0 \/ call.at = "startTake" \/ (call.at = "startAdvance" /\ call.full)
  /\ call.at \in {"startTake", "startCopy"} => d.transferActive \/ d.die
  /\ call.at = "startAdvance" =>
       /\ d.transferActive
       /\ ~d.cyclic => d.inUser + call.n <= d.size
       /\ call.full => ~d.cyclic /\ d.inUser + call.n = d.size

Ordered(d) ==
  d.event # "POSTSTOP" =>
    0 <= d.current /\ d.current <= d.read /\ d.read <= scans /\ 0 <= d.lastPass

(* Before the trigger: what is left of the pre-trigger count, and where a  *)
(* software trigger that is set put it.                                    *)
Awaiting(d) ==
  d.acqActive /\ d.event = "TRIGGER" =>
    /\ d.trigCount = AtLeast(0, d.pre - d.current)
    /\ d.stopCount = d.post /\ ~d.stopSw
    /\ d.pacer = "waiting" => scans = 0
    /\ d.source \in {"Immediate", "Hardware"} => d.current = 0
    /\ d.source = "Hardware" /\ ~d.trigHw => d.read = 0
    /\ d.trigSw => d.pre <= d.trigScan /\ d.current <= d.trigScan /\ d.trigScan <= d.read

(* Between trigger and stop: where the scans owed begin, what is left of   *)
(* the post-trigger count, and where a software stop that is set put it.   *)
Triggered(d) ==
  d.acqActive /\ d.event = "STOP" =>
    /\ d.first = d.trigScan - d.pre
    /\ 1 <= d.trigScan /\ d.trigScan <= d.current
    /\ d.stopCount = AtLeast(0, d.trigScan - 1 + d.post - d.current)
    /\ d.stop = "ScanCount" => d.trigScan - 1 + d.post > d.current
    /\ d.stopSw /\ d.stop = "Software" =>
         d.stopCount = 0 /\ d.current <= d.stopScan /\ d.stopScan <= d.read

Ended(d) ==
  d.event = "POSTSTOP" /\ hist.armed.stop = "ScanCount" =>
    d.current + 1 = d.first + hist.armed.pre + hist.armed.post

Owed(d) ==
  (d.acqActive /\ d.event = "STOP") \/ d.event = "POSTSTOP" =>
    /\ d.first + d.sent + d.toMove + d.dropped + call.n = d.current + 1
    /\ d.first >= (IF d.trigSw THEN 0 ELSE 1)

Bounded(d) ==
  d.toMove + call.n <=
    (IF d.die THEN 2 * RingScans ELSE RingScans) + Uncounted(d)

(* Between the two stores of adcSoftTrig, and between the stores of        *)
(* userInpBuf and DaafTransferActive in adcStart.                          *)
Flagging(d) ==
  /\ call.at = "trigFlag" =>
       /\ call.event = d.event \/ d.event = "POSTSTOP"
       /\ d.acqActive /\ d.event = "TRIGGER" =>
            d.pre <= d.trigScan /\ d.current <= d.trigScan /\ d.trigScan <= d.read
       /\ d.acqActive /\ d.event = "STOP" =>
            d.stopCount = 0 /\ d.current <= d.stopScan /\ d.stopScan <= d.read
  /\ call.at = "startOpen" => d.userOpen

Ledger(d) ==
  /\ Requested(d) /\ Held(d) /\ Ordered(d) /\ Awaiting(d) /\ Triggered(d)
  /\ Ended(d) /\ Owed(d) /\ Bounded(d)

DInv == IInv /\ (~hist.raced => Ledger(pde) /\ Flagging(pde))
-----------------------------------------------------------------------------
(* What checkForEvent changes when it looks for the stop, and what it      *)
(* finds: o, whether the event occurred, and the record e.                 *)
AlikeButStop(d, e) ==
  /\ SameTransfer(d, e) /\ SameCounter(d, e) /\ SameRequest(d, e)
  /\ e.stale = d.stale /\ e.event = d.event
  /\ e.trigCount = d.trigCount /\ e.trigScan = d.trigScan
  /\ e.trigSw = d.trigSw /\ e.trigHw = d.trigHw /\ e.stopSw = d.stopSw

StopFound(d, acquired, o, e) ==
  /\ acquired < d.stopCount => ~o /\ e.stopCount = d.stopCount - acquired
  /\ acquired >= d.stopCount =>
       /\ e.stopCount = 0
       /\ d.stop = "ScanCount" => o /\ e.stopScan = d.current - acquired + d.stopCount
       /\ d.stop = "Level" /\ o =>
            d.current - acquired + d.stopCount < e.stopScan /\ e.stopScan <= d.current
       /\ d.stop \notin {"ScanCount", "Level"} =>
            (o <=> d.stop = "Software" /\ d.stopSw) /\ e.stopScan = d.stopScan
  /\ ~o => e.stopScan = d.stopScan

LEMMA CheckForStopFields ==
  ASSUME NEW d, IsPde(d), NEW acquired \in Nat
  PROVE  LET c == CheckForStop(d, acquired)
         IN  AlikeButStop(d, c.d) /\ StopFound(d, acquired, c.occurred, c.d)
<1> DEFINE c == CheckForStop(d, acquired)
           n == acquired - d.stopCount
           z == [d EXCEPT !.stopCount = 0]
           g == Searched(z, n)
<1> SUFFICES AlikeButStop(d, c.d) /\ StopFound(d, acquired, c.occurred, c.d)
  OBVIOUS
<1>1. CASE acquired < d.stopCount
  <2>1. c = [occurred |-> FALSE, d |-> [d EXCEPT !.stopCount = d.stopCount - acquired]]
    BY <1>1 DEF CheckForStop
  <2>2. LET e == [d EXCEPT !.stopCount = d.stopCount - acquired]
        IN  AlikeButStop(d, e) /\ e.stopCount = d.stopCount - acquired /\ e.stopScan = d.stopScan
    BY SMTT(30) DEF AlikeButStop, SameTransfer, SameCounter, SameRequest, IsPde, Flags, Counts, Others
  <2> HIDE DEF c
  <2> QED BY <1>1, <2>1, <2>2 DEF StopFound, IsPde, Counts
<1>2. CASE acquired >= d.stopCount
  <2>0. n \in Nat /\ ~(acquired < d.stopCount)
    BY <1>2 DEF IsPde, Counts
  <2>1. IsPde(z) /\ AlikeButStop(d, z) /\ z.stopCount = 0 /\ z.stopScan = d.stopScan
    BY SMTT(30) DEF AlikeButStop, SameTransfer, SameCounter, SameRequest, IsPde, Flags, Counts, Others
  <2> HIDE DEF z
  <2>2. LevelOffset(d, n) \in 0..n
    BY <2>0, LevelOffsetType
  <2>3. ASSUME NEW s \in Int
        PROVE  LET e == [z EXCEPT !.stopScan = s]
               IN  AlikeButStop(d, e) /\ e.stopCount = 0 /\ e.stopScan = s
    BY <2>1, SMTT(30) DEF AlikeButStop, SameTransfer, SameCounter, SameRequest, IsPde, Flags, Counts, Others
  <2>4. ASSUME NEW s \in Int
        PROVE  LET e == [g EXCEPT !.stopScan = s]
               IN  AlikeButStop(d, e) /\ e.stopCount = 0 /\ e.stopScan = s
    <3> DEFINE q == (z.search + LevelOffset(z, n)) % RingScans
    <3>1. g = [z EXCEPT !.search = q]
      BY DEF Searched
    <3> HIDE DEF q, g
    <3>2. AlikeButStop(d, g) /\ g.stopCount = 0
      BY <2>1, <3>1, SMTT(30) DEF AlikeButStop, SameTransfer, SameCounter, SameRequest, IsPde, Flags, Counts, Others
    <3>3. IsPde(g)
      BY <2>0, <2>1, SearchedType DEF g
    <3> QED BY <3>2, <3>3, SMTT(30) DEF AlikeButStop, SameTransfer, SameCounter, SameRequest, IsPde, Flags, Counts, Others
  <2>5. g.stopScan = d.stopScan /\ g.stopScan \in Int /\ d.current - n \in Int
    BY <2>0, <2>1 DEF Searched, IsPde, Flags, Counts, Others
  <2> DEFINE hit == LevelOffset(d, n) < n
             at == d.current - n + LevelOffset(d, n) + 1
  <2>6. at \in Int
    BY <2>0, <2>2 DEF IsPde, Counts
  <2>7. CASE d.stop = "ScanCount"
    <3>1. c = [occurred |-> TRUE, d |-> [z EXCEPT !.stopScan = d.current - n]]
      BY <2>0, <2>7 DEF CheckForStop, z
    <3> HIDE DEF c
    <3>2. c.occurred /\ AlikeButStop(d, c.d) /\ c.d.stopCount = 0 /\ c.d.stopScan = d.current - n
      BY <2>3, <2>5, <3>1
    <3> QED BY <1>2, <2>7, <3>2 DEF StopFound, IsPde, Counts
  <2>8. CASE d.stop = "Level"
    <3>1. c = [occurred |-> hit, d |-> [g EXCEPT !.stopScan = IF hit THEN at ELSE g.stopScan]]
      BY <2>0, <2>8 DEF CheckForStop, z
    <3> HIDE DEF c, g, at
    <3>2. AlikeButStop(d, c.d) /\ c.d.stopCount = 0 /\ c.d.stopScan = IF hit THEN at ELSE g.stopScan
      BY <2>4, <2>5, <2>6, <3>1
    <3>3. c.occurred <=> hit
      BY <3>1
    <3>4. hit => d.current - n < at /\ at <= d.current
      BY <2>0, <2>2 DEF at, IsPde, Counts
    <3> QED BY <1>2, <2>5, <2>8, <3>2, <3>3, <3>4 DEF StopFound, IsPde, Counts
  <2>9. CASE d.stop \notin {"ScanCount", "Level"}
    <3>1. c = [occurred |-> d.stop = "Software" /\ d.stopSw, d |-> z]
      BY <2>0, <2>9 DEF CheckForStop, z
    <3> HIDE DEF c
    <3>2. AlikeButStop(d, c.d) /\ c.d.stopCount = 0 /\ c.d.stopScan = d.stopScan
      BY <2>1, <3>1
    <3>3. c.occurred <=> d.stop = "Software" /\ d.stopSw
      BY <3>1
    <3> QED BY <1>2, <2>9, <3>2, <3>3 DEF StopFound, IsPde, Counts
  <2> QED BY <2>7, <2>8, <2>9
<1> QED BY <1>1, <1>2 DEF IsPde, Counts

SameMove(d, e) ==
  /\ e.transferActive = d.transferActive /\ e.toMove = d.toMove
  /\ e.inUser = d.inUser /\ e.size = d.size /\ e.cyclic = d.cyclic
  /\ e.sent = d.sent /\ e.first = d.first /\ e.stale = d.stale
  /\ e.userOpen = d.userOpen

(* The end of an acquisition: the last n scans, then nothing runs.         *)
Finished(d, e, n) ==
  LET m == Room(d, n)
      xfer == d.transferActive
  IN  /\ e.event = "POSTSTOP" /\ Quiet(e) /\ ~e.transferActive /\ e.die
      /\ e.current = d.stopScan
      /\ e.source = d.source /\ e.stop = d.stop /\ e.pre = d.pre /\ e.post = d.post
      /\ e.configured = d.configured /\ e.trigSw = d.trigSw /\ e.trigScan = d.trigScan
      /\ e.stopScan = d.stopScan /\ e.size = d.size /\ e.cyclic = d.cyclic
      /\ e.wild = d.wild /\ e.dropped = d.dropped /\ e.first = d.first
      /\ e.toMove = IF ~xfer THEN d.toMove + n ELSE IF Fills(d, n) THEN n - m ELSE d.toMove
      /\ e.sent = IF xfer THEN d.sent + m ELSE d.sent
      /\ e.inUser = IF xfer THEN d.inUser + m ELSE d.inUser
      /\ e.stale => d.stale \/ (n > 0 /\ xfer /\ NextWanted(d) + RingScans <= scans)

LEMMA OnStopFields ==
  ASSUME scans \in Nat, NEW d, IsPde(d), d.last <= d.stopScan,
         ~d.cyclic => d.inUser <= d.size, d.transferActive => d.userOpen
  PROVE  Finished(d, OnStop(d), d.stopScan - d.last)
<1> DEFINE n == d.stopScan - d.last
           x == [SetupPostStopEvent(d) EXCEPT !.current = d.last]
           y == ComputeScansAcquired(x, 0)
           g == CopyNewScans(y, y.current - y.last)
           h == AdcDisarmAcquisition(g)
           e == AdcStop(h)
           Like(a) == /\ a.event = "POSTSTOP" /\ a.stopScan = d.stopScan
                      /\ a.source = d.source /\ a.stop = d.stop /\ a.pre = d.pre
                      /\ a.post = d.post /\ a.configured = d.configured
                      /\ a.trigSw = d.trigSw /\ a.trigScan = d.trigScan
                      /\ a.size = d.size /\ a.cyclic = d.cyclic
                      /\ a.wild = d.wild /\ a.dropped = d.dropped /\ a.first = d.first
<1>1. n \in Nat /\ d.last \in Int /\ d.stopScan \in Int
  BY DEF IsPde, Counts
<1>2. IsPde(x) /\ Like(x) /\ x.current = d.last /\ SameMove(d, x)
  BY <1>1, SMTT(30) DEF SameMove, SetupPostStopEvent, Events, IsPde, Flags, Counts, Others
<1>3. y = [x EXCEPT !.last = d.last, !.current = d.stopScan]
  BY <1>2 DEF ComputeScansAcquired
<1> HIDE DEF x, y
<1>4. /\ IsPde(y) /\ Like(y) /\ SameMove(d, y)
      /\ y.current = d.stopScan /\ y.last = d.last
  BY <1>1, <1>2, <1>3, SMTT(30) DEF SameMove, IsPde, Flags, Counts, Others
<1>5. g = CopyNewScans(y, n)
  BY <1>4
<1> HIDE DEF g
<1>6. IsPde(g) /\ Copied(y, g, n)
  BY <1>1, <1>4, <1>5, CopyNewScansType, CopyNewScansFields DEF SameMove
<1>7. /\ Like(g) /\ g.current = d.stopScan
      /\ g.toMove = IF ~d.transferActive THEN d.toMove + n
                    ELSE IF Fills(d, n) THEN n - Room(d, n) ELSE d.toMove
      /\ g.sent = IF d.transferActive THEN d.sent + Room(d, n) ELSE d.sent
      /\ g.inUser = IF d.transferActive THEN d.inUser + Room(d, n) ELSE d.inUser
      /\ g.stale => d.stale \/ (n > 0 /\ d.transferActive /\ NextWanted(d) + RingScans <= scans)
  <2>1. Fills(y, n) = Fills(d, n) /\ Room(y, n) = Room(d, n) /\ NextWanted(y) = NextWanted(d)
    BY <1>4 DEF Fills, Room, NextWanted, SameMove
  <2> QED BY <1>4, <1>6, <2>1 DEF Copied, SameMove, SameCounter, SameEvents, SameRequest
<1>8. /\ IsPde(h) /\ Quiet(h) /\ Like(h) /\ h.current = g.current
      /\ h.toMove = g.toMove /\ h.sent = g.sent /\ h.inUser = g.inUser /\ h.stale = g.stale
  BY <1>6, <1>7, DisarmAcquisitionType, DisarmAcquisitionFields
     DEF SameEvents, SameCounter, SameTransfer
<1> HIDE DEF h
<1>9. /\ Like(e) /\ Quiet(e) /\ e.current = g.current
      /\ e.toMove = g.toMove /\ e.sent = g.sent /\ e.inUser = g.inUser /\ e.stale = g.stale
      /\ ~e.transferActive /\ e.die
  BY <1>8, StopFields, StopType DEF Kept, Quiet, SameEvents, SameCounter, SameRequest
<1> HIDE DEF e
<1>10. OnStop(d) = e
  <2>1. x.last = d.last /\ SetupPostStopEvent(d).last = d.last
    BY SMTT(30) DEF x, SetupPostStopEvent, IsPde, Flags, Counts, Others
  <2> QED BY <2>1 DEF OnStop, e, h, g, y, x
<1> QED BY <1>7, <1>9, <1>10 DEF Finished

(* What StopPhase finds: the last scan accounted for is d.last, and        *)
(* acquired more have been counted.                                        *)
Ready(d, acquired) ==
  /\ acquired \in Nat /\ acquired > 0
  /\ d.event = "STOP" /\ d.acqActive /\ ~d.wild
  /\ d.configured => Request(d) \in Configs
  /\ hist.armed = Request(d) /\ hist.armed \in Configs
  /\ d.toMove >= 0 /\ d.sent >= 0 /\ d.inUser >= 0 /\ d.dropped = 0
  /\ ~d.cyclic => d.inUser <= d.size
  /\ d.transferActive => d.userOpen
  /\ call.at = "startOpen" => ~d.transferActive /\ d.configured
  /\ d.transferActive => d.toMove = 0 \/ call.at = "startTake"
  /\ call.at \in {"startTake", "startCopy"} => d.transferActive \/ d.die
  /\ 0 <= d.last /\ d.last + acquired = d.current /\ d.current = d.read
  /\ d.read <= scans /\ 0 <= d.lastPass
  /\ d.first = d.trigScan - d.pre /\ 1 <= d.trigScan /\ d.trigScan - 1 <= d.last
  /\ d.first >= (IF d.trigSw THEN 0 ELSE 1)
  /\ d.first + d.sent + d.toMove + call.n = d.last + 1
  /\ d.stopCount = AtLeast(0, d.trigScan - 1 + d.post - d.last)
  /\ d.stop = "ScanCount" => d.trigScan - 1 + d.post > d.last
  /\ d.stopSw /\ d.stop = "Software" =>
       d.stopCount = 0 /\ d.last <= d.stopScan /\ d.stopScan <= d.current
  /\ d.toMove + acquired <= RingScans + Uncounted(d)
  /\ call.n <= RingScans + Uncounted(d)
  /\ Holding => d.transferActive /\ d.toMove = 0 /\ acquired <= RingScans

(* No ioctl, or one that a callback of this kind may interrupt.            *)
Steady == /\ call.at \notin {"armWait", "startAdvance"}
          /\ call.n \in Nat /\ (~Holding => call.n = 0)

(* A callback that takes the buffer away from adcStart before it has taken *)
(* the scans that waited.                                                  *)
Snatched(d, e) ==
  call.at = "startTake" /\ d.toMove > 0 /\ d.transferActive /\ ~e.transferActive

LEMMA StopPhaseLedger ==
  ASSUME scans \in Nat, hist.armed.pre \in Nat, Steady,
         NEW d, IsPde(d), NEW acquired \in Nat, Ready(d, acquired)
  PROVE  LET e == StopPhase(d, acquired)
         IN  /\ Ledger(e) \/ Snatched(d, e)
             /\ e.event = "POSTSTOP" \/ (e.event = "STOP" /\ e.current = d.current)
             /\ e.first = d.first
<1> DEFINE c == CheckForStop(d, acquired)
           o == c.occurred
           b == c.d
           e == StopPhase(d, acquired)
<1> SUFFICES /\ Ledger(e) \/ Snatched(d, e)
             /\ e.event = "POSTSTOP" \/ (e.event = "STOP" /\ e.current = d.current)
             /\ e.first = d.first
  OBVIOUS
<1>1. e = IF o THEN OnStop(b) ELSE CopyNewScans(b, acquired)
  BY DEF StopPhase, Ready
<1>2. IsPde(b) /\ AlikeButStop(d, b) /\ StopFound(d, acquired, o, b)
  BY CheckForStopType, CheckForStopFields
<1>3. Uncounted(b) = Uncounted(d) /\ Request(b) = Request(d)
  BY <1>2 DEF AlikeButStop, SameTransfer, SameRequest, Uncounted, Request
<1>4. \A n : Fills(b, n) = Fills(d, n) /\ Room(b, n) = Room(d, n)
  BY <1>2 DEF Fills, Room, AlikeButStop, SameTransfer
<1> HIDE DEF c, o, b, e
<1>5. CASE o
  <2>1. d.last <= b.stopScan /\ b.stopScan <= d.current
    BY <1>2, <1>5 DEF StopFound, Ready, AtLeast, IsPde, Counts
  <2>2. d.stop = "ScanCount" => b.stopScan + 1 = d.trigScan + d.post
    BY <1>2, <1>5 DEF StopFound, Ready, AtLeast, IsPde, Counts
  <2> DEFINE n == b.stopScan - d.last
  <2>3. Finished(b, e, n)
    BY <1>1, <1>2, <1>5, <2>1, OnStopFields DEF AlikeButStop, SameTransfer, SameCounter, Ready
  <2>4. n \in Nat /\ n <= acquired /\ Room(d, n) \in Nat /\ Room(d, n) <= n
    BY <1>2, <2>1 DEF Room, Fills, Ready, IsPde, Counts
  <2>5. /\ e.event = "POSTSTOP" /\ ~e.acqActive /\ ~e.dma /\ ~e.transferActive /\ e.die
        /\ e.current = b.stopScan /\ ~e.wild /\ e.dropped = 0 /\ e.first = d.first
        /\ e.configured = d.configured /\ Request(e) = Request(d)
        /\ Uncounted(e) = Uncounted(d) /\ e.trigSw = d.trigSw
        /\ e.size = d.size /\ e.cyclic = d.cyclic
    BY <1>2, <2>3 DEF Finished, Quiet, AlikeButStop, SameTransfer, SameRequest, Ready,
       Request, Uncounted
  <2>6. /\ e.toMove = IF ~d.transferActive THEN d.toMove + n
                     ELSE IF Fills(d, n) THEN n - Room(d, n) ELSE d.toMove
        /\ e.sent = IF d.transferActive THEN d.sent + Room(d, n) ELSE d.sent
        /\ e.inUser = IF d.transferActive THEN d.inUser + Room(d, n) ELSE d.inUser
    BY <1>2, <1>3, <1>4, <2>3 DEF Finished, AlikeButStop, SameTransfer
  <2> HIDE DEF n
  <2>7. CASE d.transferActive /\ Fills(d, n) /\ d.toMove > 0
    <3>1. Snatched(d, e)
      BY <2>5, <2>7 DEF Ready, Snatched, IsPde, Counts
    <3> QED BY <2>5, <2>6, <3>1
  <2>8. CASE ~(d.transferActive /\ Fills(d, n) /\ d.toMove > 0)
    <3>1. Requested(e) /\ Ordered(e) /\ Awaiting(e) /\ Triggered(e)
      BY <2>5 DEF Ready, Steady, Requested, Ordered, Awaiting, Triggered
    <3>2. e.toMove \in Nat /\ e.sent \in Nat /\ e.inUser \in Nat
          /\ (~e.cyclic => e.inUser <= e.size)
      BY <2>4, <2>5, <2>6 DEF Ready, Room, Fills, IsPde, Counts
    <3>3. Held(e)
      BY <2>5, <3>2 DEF Held, Steady, Ready
    <3>4. d.first + e.sent + e.toMove + call.n = d.last + 1 + n
      BY <2>4, <2>6, <2>8 DEF Ready, Steady, Room, IsPde, Counts
    <3>5. Owed(e)
      BY <1>2, <2>5, <3>2, <3>4 DEF n, Owed, Ready, Steady, IsPde, Counts
    <3>6. Ended(e)
      BY <1>2, <2>2, <2>5 DEF Ended, Ready, Request, IsPde, Counts
    <3>7. Bounded(e)
      <4>1. Uncounted(d) \in Nat
        BY DEF Uncounted
      <4>2. e.toMove <= d.toMove + n
        BY <2>4, <2>6 DEF Ready, IsPde, Counts
      <4>3. e.toMove + call.n <= 2 * RingScans + Uncounted(d)
        <5>1. CASE Holding
          BY <2>4, <3>2, <4>1, <4>2, <5>1, SizesAssumption DEF Ready, Steady, IsPde, Counts
        <5>2. CASE ~Holding
          BY <2>4, <3>2, <4>1, <4>2, <5>2, SizesAssumption DEF Ready, Steady, IsPde, Counts
        <5> QED BY <5>1, <5>2
      <4> QED BY <2>5, <4>3 DEF Bounded
    <3> QED BY <2>5, <2>6, <3>1, <3>3, <3>5, <3>6, <3>7 DEF Ledger
  <2> QED BY <2>7, <2>8
<1>6. CASE ~o
  <2>1. Copied(b, e, acquired)
    BY <1>1, <1>2, <1>6, CopyNewScansFields DEF AlikeButStop, SameTransfer, Ready
  <2>2. /\ e.event = "STOP" /\ e.acqActive = d.acqActive /\ e.dma = d.dma
        /\ e.current = d.current /\ e.read = d.read /\ e.lastPass = d.lastPass
        /\ ~e.wild /\ e.dropped = 0 /\ e.first = d.first /\ e.trigScan = d.trigScan
        /\ e.stopCount = b.stopCount /\ e.stopScan = d.stopScan /\ e.stopSw = d.stopSw
        /\ e.configured = d.configured /\ Request(e) = Request(d)
        /\ e.stop = d.stop /\ e.pre = d.pre /\ e.post = d.post
        /\ Uncounted(e) = Uncounted(d) /\ e.trigSw = d.trigSw
        /\ e.size = d.size /\ e.cyclic = d.cyclic
    BY <1>2, <1>6, <2>1 DEF Copied, SameEvents, SameCounter, SameRequest, AlikeButStop,
       SameTransfer, StopFound, Ready, Request, Uncounted
  <2>3. /\ e.toMove = IF ~d.transferActive THEN d.toMove + acquired
                     ELSE IF Fills(d, acquired) THEN acquired - Room(d, acquired) ELSE d.toMove
        /\ e.sent = IF d.transferActive THEN d.sent + Room(d, acquired) ELSE d.sent
        /\ e.inUser = IF d.transferActive THEN d.inUser + Room(d, acquired) ELSE d.inUser
        /\ e.transferActive <=> d.transferActive /\ ~Fills(d, acquired)
        /\ e.die <=> d.die \/ (d.transferActive /\ Fills(d, acquired))
        /\ e.transferActive => e.userOpen
    BY <1>2, <1>3, <1>4, <2>1 DEF Copied, AlikeButStop, SameTransfer
  <2>4. Room(d, acquired) \in Nat /\ Room(d, acquired) <= acquired
    BY DEF Room, Fills, Ready, IsPde, Counts
  <2>5. CASE d.transferActive /\ Fills(d, acquired) /\ d.toMove > 0
    <3>1. Snatched(d, e)
      BY <2>3, <2>5 DEF Ready, Snatched, IsPde, Counts
    <3> QED BY <2>2, <2>3, <3>1
  <2>6. CASE ~(d.transferActive /\ Fills(d, acquired) /\ d.toMove > 0)
    <3>1. Requested(e) /\ Ordered(e) /\ Awaiting(e) /\ Ended(e)
      BY <2>2 DEF Ready, Steady, Requested, Ordered, Awaiting, Ended, IsPde, Counts
    <3>2. e.toMove \in Nat /\ e.sent \in Nat /\ e.inUser \in Nat
          /\ (~e.cyclic => e.inUser <= e.size)
      BY <2>2, <2>3, <2>4 DEF Ready, Room, Fills, IsPde, Counts
    <3>3. Held(e)
      BY <2>2, <2>3, <2>6, <3>2 DEF Held, Steady, Ready, IsPde, Counts
    <3>4. d.first + e.sent + e.toMove + call.n = d.last + 1 + acquired
      BY <2>3, <2>4, <2>6 DEF Ready, Steady, Room, IsPde, Counts
    <3>5. Owed(e)
      BY <2>2, <3>2, <3>4 DEF Owed, Ready, Steady, IsPde, Counts
    <3>6. Triggered(e)
      <4>1. e.stopCount = AtLeast(0, d.trigScan - 1 + d.post - d.current)
        BY <1>2, <1>6, <2>2 DEF StopFound, Ready, AtLeast, IsPde, Counts
      <4>2. d.stop = "ScanCount" => d.trigScan - 1 + d.post > d.current
        BY <1>2, <1>6 DEF StopFound, Ready, AtLeast, IsPde, Counts
      <4>3. ~(d.stopSw /\ d.stop = "Software")
        BY <1>2, <1>6 DEF StopFound, Ready, AtLeast, IsPde, Counts
      <4> QED BY <2>2, <4>1, <4>2, <4>3 DEF Triggered, Ready, IsPde, Counts
    <3>7. Bounded(e)
      <4>1. Uncounted(d) \in Nat
        BY DEF Uncounted
      <4>2. CASE Holding
        BY <2>2, <2>3, <2>4, <3>2, <4>1, <4>2, SizesAssumption
           DEF Bounded, Ready, Steady, IsPde, Counts
      <4>3. CASE ~Holding
        BY <2>2, <2>3, <2>4, <3>2, <4>1, <4>3, SizesAssumption
           DEF Bounded, Ready, Steady, IsPde, Counts
      <4> QED BY <4>2, <4>3
    <3> QED BY <2>2, <2>3, <3>1, <3>3, <3>5, <3>6, <3>7 DEF Ledger
  <2> QED BY <2>5, <2>6
<1> QED BY <1>5, <1>6
-----------------------------------------------------------------------------
(* What checkForEvent changes when it looks for the trigger.               *)
AlikeButTrigger(d, e) ==
  /\ SameTransfer(d, e) /\ SameCounter(d, e) /\ SameRequest(d, e)
  /\ e.stale = d.stale /\ e.event = d.event
  /\ e.stopCount = d.stopCount /\ e.stopScan = d.stopScan /\ e.stopSw = d.stopSw
  /\ e.trigSw = d.trigSw /\ e.trigHw = d.trigHw

TriggerFound(d, acquired, o, e) ==
  /\ acquired <= d.trigCount => ~o /\ e.trigCount = d.trigCount - acquired
  /\ acquired > d.trigCount =>
       /\ e.trigCount = 0
       /\ d.trigSw => o /\ e.trigScan = AtLeast(1, d.trigScan)
       /\ ~d.trigSw /\ (d.source = "Immediate" \/ (d.source = "Hardware" /\ d.trigHw)) =>
            o /\ e.trigScan = 1
       /\ ~d.trigSw /\ d.source = "Level" /\ o =>
            d.current - acquired + d.trigCount < e.trigScan /\ e.trigScan <= d.current
       /\ ~d.trigSw /\ (d.source = "Software" \/ (d.source = "Hardware" /\ ~d.trigHw)) => ~o
  /\ ~o => e.trigScan = d.trigScan

LEMMA CheckForTriggerFields ==
  ASSUME NEW d, IsPde(d), NEW acquired \in Nat
  PROVE  LET c == CheckForTrigger(d, acquired)
         IN  AlikeButTrigger(d, c.d) /\ TriggerFound(d, acquired, c.occurred, c.d)
<1> DEFINE c == CheckForTrigger(d, acquired)
           n == acquired - d.trigCount
           z == [d EXCEPT !.trigCount = 0]
           g == Searched(z, n)
<1> SUFFICES AlikeButTrigger(d, c.d) /\ TriggerFound(d, acquired, c.occurred, c.d)
  OBVIOUS
<1>1. CASE acquired <= d.trigCount
  <2>1. c = [occurred |-> FALSE, d |-> [d EXCEPT !.trigCount = d.trigCount - acquired]]
    BY <1>1 DEF CheckForTrigger
  <2>2. LET e == [d EXCEPT !.trigCount = d.trigCount - acquired]
        IN  AlikeButTrigger(d, e) /\ e.trigCount = d.trigCount - acquired
            /\ e.trigScan = d.trigScan
    BY SMTT(30) DEF AlikeButTrigger, SameTransfer, SameCounter, SameRequest,
                    IsPde, Flags, Counts, Others
  <2> HIDE DEF c
  <2> QED BY <1>1, <2>1, <2>2 DEF TriggerFound, IsPde, Counts
<1>2. CASE acquired > d.trigCount
  <2>0. n \in Nat /\ ~(acquired <= d.trigCount)
    BY <1>2 DEF IsPde, Counts
  <2>1. IsPde(z) /\ AlikeButTrigger(d, z) /\ z.trigCount = 0 /\ z.trigScan = d.trigScan
    BY SMTT(30) DEF AlikeButTrigger, SameTransfer, SameCounter, SameRequest,
                    IsPde, Flags, Counts, Others
  <2> HIDE DEF z
  <2>2. LevelOffset(d, n) \in 0..n
    BY <2>0, LevelOffsetType
  <2>3. ASSUME NEW s \in Int
        PROVE  LET e == [z EXCEPT !.trigScan = s]
               IN  AlikeButTrigger(d, e) /\ e.trigCount = 0 /\ e.trigScan = s
    BY <2>1, SMTT(30) DEF AlikeButTrigger, SameTransfer, SameCounter, SameRequest,
                          IsPde, Flags, Counts, Others
  <2>4. ASSUME NEW s \in Int
        PROVE  LET e == [g EXCEPT !.trigScan = s]
               IN  AlikeButTrigger(d, e) /\ e.trigCount = 0 /\ e.trigScan = s
    <3> DEFINE q == (z.search + LevelOffset(z, n)) % RingScans
    <3>1. g = [z EXCEPT !.search = q]
      BY DEF Searched
    <3> HIDE DEF q, g
    <3>2. AlikeButTrigger(d, g) /\ g.trigCount = 0
      BY <2>1, <3>1, SMTT(30) DEF AlikeButTrigger, SameTransfer, SameCounter, SameRequest,
                                  IsPde, Flags, Counts, Others
    <3>3. IsPde(g)
      BY <2>0, <2>1, SearchedType DEF g
    <3> QED BY <3>2, <3>3, SMTT(30) DEF AlikeButTrigger, SameTransfer, SameCounter, SameRequest,
                                        IsPde, Flags, Counts, Others
  <2>5. g.trigScan = d.trigScan /\ g.trigScan \in Int
    BY <2>0, <2>1 DEF Searched, IsPde, Flags, Counts, Others
  <2>6. CASE d.trigSw
    <3>1. c = [occurred |-> TRUE, d |-> [z EXCEPT !.trigScan = AtLeast(1, d.trigScan)]]
      BY <2>0, <2>6 DEF CheckForTrigger, z
    <3>2. AtLeast(1, d.trigScan) \in Int
      BY DEF AtLeast, IsPde, Counts
    <3> HIDE DEF c
    <3> QED BY <1>2, <2>0, <2>3, <2>6, <3>1, <3>2 DEF TriggerFound
  <2>7. CASE ~d.trigSw /\ (d.source = "Immediate" \/ (d.source = "Hardware" /\ d.trigHw))
    <3>1. c = [occurred |-> TRUE, d |-> [z EXCEPT !.trigScan = 1]]
      BY <2>0, <2>7 DEF CheckForTrigger, z
    <3> HIDE DEF c
    <3> DEFINE u == [z EXCEPT !.trigScan = 1]
    <3>u. AlikeButTrigger(d, u) /\ u.trigCount = 0 /\ u.trigScan = 1
      <4>1. 1 \in Int
        OBVIOUS
      <4> QED BY <2>3, <4>1, Zenon
    <3> HIDE DEF u
    <3>2. AlikeButTrigger(d, c.d) /\ c.d.trigCount = 0 /\ c.d.trigScan = 1 /\ c.occurred
      BY <3>1, <3>u DEF u
    <3>3. d.source # "Level" /\ ~(d.source = "Software" \/ (d.source = "Hardware" /\ ~d.trigHw))
      BY <2>7
    <3> QED BY <2>0, <2>7, <3>2, <3>3 DEF TriggerFound
  <2>8. CASE ~d.trigSw /\ d.source = "Level"
    <3> DEFINE hit == LevelOffset(d, n) < n
               at == d.current - n + LevelOffset(d, n) + 1
    <3>1. c = [occurred |-> hit, d |-> [g EXCEPT !.trigScan = IF hit THEN at ELSE g.trigScan]]
      BY <2>0, <2>8 DEF CheckForTrigger, z
    <3>2. at \in Int /\ (hit => d.current - n < at /\ at <= d.current)
      BY <2>0, <2>2 DEF IsPde, Counts
    <3> HIDE DEF c, g, at
    <3>3. /\ AlikeButTrigger(d, c.d) /\ c.d.trigCount = 0
          /\ c.d.trigScan = IF hit THEN at ELSE g.trigScan
      BY <2>4, <2>5, <3>1, <3>2
    <3>4. c.occurred <=> hit
      BY <3>1
    <3> QED BY <1>2, <2>0, <2>5, <2>8, <3>2, <3>3, <3>4 DEF TriggerFound, IsPde, Counts
  <2>9. CASE ~d.trigSw /\ (d.source = "Software" \/ (d.source = "Hardware" /\ ~d.trigHw))
    <3>1. c = [occurred |-> FALSE, d |-> z]
      BY <2>0, <2>9 DEF CheckForTrigger, z
    <3> HIDE DEF c
    <3> QED BY <1>2, <2>0, <2>1, <2>9, <3>1 DEF TriggerFound
  <2> QED BY <2>6, <2>7, <2>8, <2>9 DEF IsPde, Sources
<1> QED BY <1>1, <1>2 DEF IsPde, Counts

(* What OnTrigger makes of a record whose trigger scan is known.           *)
Triggers(d, e) ==
  LET n == d.pre
      m == Room(d, n)
      xfer == d.transferActive
  IN  /\ e.event = "STOP" /\ SameRequest(d, e)
      /\ e.stopCount = d.stopCount /\ e.stopScan = d.stopScan /\ e.stopSw = d.stopSw
      /\ e.trigScan = d.trigScan /\ e.trigSw = d.trigSw
      /\ e.read = d.read /\ e.current = d.current /\ e.lastPass = d.lastPass
      /\ e.last = d.trigScan - 1 /\ e.first = d.trigScan - d.pre
      /\ e.size = d.size /\ e.cyclic = d.cyclic /\ e.wild = d.wild
      /\ e.dropped = d.dropped
      /\ e.toMove = IF ~xfer THEN d.toMove + n ELSE IF Fills(d, n) THEN n - m ELSE d.toMove
      /\ e.sent = IF xfer THEN d.sent + m ELSE d.sent
      /\ e.inUser = IF xfer THEN d.inUser + m ELSE d.inUser
      /\ e.transferActive <=> xfer /\ ~Fills(d, n)
      /\ e.die <=> d.die \/ (xfer /\ Fills(d, n))
      /\ e.stale => d.stale \/ n > 0
      /\ e.transferActive => e.userOpen

LEMMA OnTriggerFields ==
  ASSUME scans \in Nat, NEW d, IsPde(d), ~d.cyclic => d.inUser <= d.size,
         d.transferActive => d.userOpen
  PROVE  Triggers(d, OnTrigger(d))
<1> DEFINE h == (d.trigScan - d.pre - 1) % RingScans
           x == [d EXCEPT !.head = h, !.first = d.trigScan - d.pre]
           g == CopyNewScans(x, d.pre)
           s == (g.trigScan + g.stopCount - 1) % RingScans
           e == OnTrigger(d)
<1>1. h \in 0..(RingScans - 1)
  <2>1. d.trigScan - d.pre - 1 \in Int /\ RingScans \in Nat \ {0}
    BY SizesAssumption DEF IsPde, Counts
  <2> QED BY <2>1, ModRange, Zenon
<1>2. /\ e = [[g EXCEPT !.event = "STOP", !.acqTriggered = TRUE, !.search = s]
                EXCEPT !.last = d.trigScan - 1]
  BY DEF OnTrigger, SetupStopEvent
<1> HIDE DEF h, s, e
<1>3. /\ IsPde(x) /\ SameEvents(d, x) /\ SameCounter(d, x) /\ SameRequest(d, x)
      /\ x.transferActive = d.transferActive /\ x.toMove = d.toMove
      /\ x.inUser = d.inUser /\ x.size = d.size /\ x.cyclic = d.cyclic
      /\ x.sent = d.sent /\ x.dropped = d.dropped /\ x.first = d.trigScan - d.pre
      /\ x.wild = d.wild /\ x.die = d.die /\ x.stale = d.stale /\ x.userOpen = d.userOpen
  BY <1>1, SMTT(30) DEF SameEvents, SameCounter, SameRequest, IsPde, Flags, Counts, Others
<1> HIDE DEF x
<1>4. d.pre \in Nat
  BY DEF IsPde
<1>5. IsPde(g) /\ Copied(x, g, d.pre)
  BY <1>3, <1>4, CopyNewScansType, CopyNewScansFields
<1> HIDE DEF g
<1>6. Fills(x, d.pre) = Fills(d, d.pre) /\ Room(x, d.pre) = Room(d, d.pre)
  BY <1>3 DEF Fills, Room
<1>7. /\ e.event = "STOP" /\ e.last = d.trigScan - 1 /\ SameRequest(g, e)
      /\ e.stopCount = g.stopCount /\ e.stopScan = g.stopScan /\ e.stopSw = g.stopSw
      /\ e.trigScan = g.trigScan /\ e.trigSw = g.trigSw
      /\ e.read = g.read /\ e.current = g.current /\ e.lastPass = g.lastPass
      /\ SameTransfer(g, e) /\ e.stale = g.stale
  BY <1>2, <1>5, SMTT(30) DEF SameRequest, SameTransfer, IsPde, Flags, Counts, Others
<1>8. /\ e.toMove = IF ~d.transferActive THEN d.toMove + d.pre
                    ELSE IF Fills(d, d.pre) THEN d.pre - Room(d, d.pre) ELSE d.toMove
      /\ e.sent = IF d.transferActive THEN d.sent + Room(d, d.pre) ELSE d.sent
      /\ e.inUser = IF d.transferActive THEN d.inUser + Room(d, d.pre) ELSE d.inUser
      /\ e.transferActive <=> d.transferActive /\ ~Fills(d, d.pre)
      /\ e.die <=> d.die \/ (d.transferActive /\ Fills(d, d.pre))
      /\ e.stale => d.stale \/ d.pre > 0
      /\ e.transferActive => e.userOpen
  BY <1>3, <1>5, <1>6, <1>7 DEF Copied, SameTransfer
<1> QED BY <1>3, <1>5, <1>7, <1>8
        DEF Copied, Triggers, SameRequest, SameEvents, SameCounter, SameTransfer, e
-----------------------------------------------------------------------------
(* What the callback has in hand once it has read the counter: pde but for *)
(* the counts, of which acquired are new.                                  *)
Scanned(d, acquired) ==
  /\ IsPde(d) /\ SameTransfer(pde, d) /\ SameRequest(pde, d) /\ d.stale = pde.stale
  /\ d.event = pde.event
  /\ d.trigCount = pde.trigCount /\ d.trigScan = pde.trigScan /\ d.trigSw = pde.trigSw
  /\ d.stopCount = pde.stopCount /\ d.stopScan = pde.stopScan /\ d.stopSw = pde.stopSw
  /\ d.last = pde.current /\ d.current = d.read /\ d.current = pde.current + acquired
  /\ pde.read <= d.read /\ d.read <= scans
  /\ d.trigHw \/ d.event # "TRIGGER" \/ d.source # "Hardware" \/ d.read = pde.read
  /\ pde.trigHw => d.trigHw
  /\ acquired \in Nat /\ 0 <= d.lastPass

(* A timer that runs, in an acquisition that no race has touched.          *)
Running ==
  /\ IsPde(pde) /\ scans \in Nat /\ fault \in BOOLEAN
  /\ call \in Calls
  /\ hist.armed \in [source: Sources, stop: StopSources, pre: Nat, post: Nat]
  /\ Ledger(pde) /\ Flagging(pde)
  /\ pde.dma /\ ~pde.die

Outcome(d) == Harmful(d) \/ (Ledger(d) /\ Flagging(d))

LEMMA RunningFacts ==
  ASSUME Running
  PROVE  /\ pde.acqActive /\ pde.event \in {"TRIGGER", "STOP"} /\ call.at # "armWait"
         /\ hist.armed = Request(pde) /\ hist.armed \in Configs
         /\ hist.armed.pre = pde.pre /\ hist.armed.post = pde.post
         /\ hist.armed.stop = pde.stop
         /\ pde.pre \in Nat /\ pde.post \in Nat
         /\ pde.post = 0 => pde.stop = "Infinite"
         /\ pde.source \in {"Immediate", "Hardware"} => pde.pre = 0
         /\ call.n \in Nat /\ Uncounted(pde) \in Nat
BY RequestsAssumption
   DEF Running, Ledger, Requested, Request, Held, IsPde, Events, Calls, Uncounted

LEMMA FatalLedger ==
  ASSUME Running, NEW e, NEW acquired, Scanned(e, acquired), fault \/ Overrun(e, acquired)
  PROVE  /\ Outcome(AdcCheckFatalErrors(e, acquired))
         /\ AdcCheckFatalErrors(e, acquired).stale = pde.stale
<1> DEFINE d == AdcCheckFatalErrors(e, acquired)
<1>1. /\ SameEvents(e, d) /\ SameCounter(e, d) /\ d.stale = e.stale
      /\ ~d.acqActive /\ ~d.dma /\ ~d.transferActive /\ d.die /\ ~d.userOpen
      /\ d.source = e.source /\ d.stop = e.stop /\ d.pre = e.pre
      /\ d.post = e.post /\ d.configured = e.configured
      /\ d.inUser = e.inUser /\ d.size = e.size /\ d.cyclic = e.cyclic /\ d.sent = e.sent
      /\ d.first = e.first /\ d.wild = e.wild
      /\ d.toMove = 0 /\ d.dropped = e.dropped + e.toMove
  <2> DEFINE Cut(x, y) ==
        /\ SameEvents(x, y) /\ SameCounter(x, y) /\ y.stale = x.stale
        /\ ~y.acqActive /\ ~y.dma /\ ~y.transferActive /\ y.die /\ ~y.userOpen
        /\ y.source = x.source /\ y.stop = x.stop /\ y.pre = x.pre
        /\ y.post = x.post /\ y.configured = x.configured
        /\ y.inUser = x.inUser /\ y.size = x.size /\ y.cyclic = x.cyclic /\ y.sent = x.sent
        /\ y.first = x.first /\ y.wild = x.wild
        /\ y.toMove = 0 /\ y.dropped = x.dropped + x.toMove
  <2>1. ASSUME NEW x, IsPde(x)
        PROVE  IsPde(AdcStop(AdcDisarm(x))) /\ Cut(x, AdcStop(AdcDisarm(x)))
    <3> DEFINE y == AdcDisarm(x)
               z == AdcStop(y)
    <3>1. IsPde(y) /\ Quiet(y)
      BY <2>1, DisarmType
    <3>2. /\ SameEvents(x, y) /\ SameCounter(x, y)
          /\ y.source = x.source /\ y.stop = x.stop /\ y.pre = x.pre
          /\ y.post = x.post /\ y.configured = x.configured /\ y.stale = x.stale
          /\ y.inUser = x.inUser /\ y.size = x.size /\ y.cyclic = x.cyclic
          /\ y.sent = x.sent /\ y.first = x.first /\ y.wild = x.wild
          /\ y.toMove = 0 /\ y.dropped = x.dropped + x.toMove
      BY <2>1, DisarmFields
    <3> HIDE DEF y
    <3>3. IsPde(z)
      BY <3>1, StopType
    <3>4. /\ SameEvents(y, z) /\ SameCounter(y, z) /\ SameRequest(y, z)
          /\ z.size = y.size /\ z.cyclic = y.cyclic
          /\ z.dropped = y.dropped /\ z.first = y.first
          /\ z.wild = y.wild /\ z.stale = y.stale
          /\ z.inUser = y.inUser /\ z.sent = y.sent /\ z.toMove = y.toMove
          /\ ~z.transferActive /\ z.die /\ ~z.userOpen
      BY <3>1, StopFields
    <3> HIDE DEF z
    <3>5. SameEvents(x, z) /\ SameCounter(x, z)
      BY <3>2, <3>4 DEF SameEvents, SameCounter
    <3>6. Cut(x, z)
      BY <3>1, <3>2, <3>4, <3>5 DEF SameRequest, Quiet
    <3> QED BY <3>3, <3>6 DEF z, y
  <2>2. CASE fault
    <3> DEFINE x == [e EXCEPT !.error = "Hardware"]
    <3>1. /\ IsPde(x) /\ SameEvents(e, x) /\ SameCounter(e, x) /\ SameTransfer(e, x)
          /\ SameRequest(e, x) /\ x.stale = e.stale
      <4>1. IsPde(e)
        BY DEF Scanned
      <4> QED BY <4>1, SMTT(30) DEF SameEvents, SameCounter, SameTransfer, SameRequest,
                                    IsPde, Flags, Counts, Others
    <3>2. d = AdcStop(AdcDisarm(x))
      BY <2>2 DEF AdcCheckFatalErrors
    <3> HIDE DEF x, d
    <3>3. Cut(x, d)
      BY <2>1, <3>1, <3>2
    <3> QED BY <3>1, <3>3 DEF SameEvents, SameCounter, SameTransfer, SameRequest
  <2>3. CASE ~fault
    <3> DEFINE y == AdcStop(AdcDisarm(e))
    <3>1. IsPde(y) /\ Cut(e, y)
      BY <2>1 DEF Scanned
    <3>2. d = [y EXCEPT !.error = "Overrun"]
      BY <2>3 DEF AdcCheckFatalErrors
    <3> HIDE DEF y, d, Cut
    <3>3. /\ SameEvents(y, d) /\ SameCounter(y, d) /\ SameTransfer(y, d)
          /\ SameRequest(y, d) /\ d.stale = y.stale
      BY <3>1, <3>2, SMTT(30) DEF SameEvents, SameCounter, SameTransfer, SameRequest,
                      IsPde, Flags, Counts, Others
    <3> QED BY <3>1, <3>3 DEF Cut, SameEvents, SameCounter, SameTransfer, SameRequest
  <2> QED BY <2>2, <2>3 DEF Running
<1>2. Harmful(d) \/ call.at \notin {"startOpen", "startAdvance"}
  BY <1>1 DEF Harmful
<1> HIDE DEF d
<1>3. ASSUME call.at \notin {"startOpen", "startAdvance"} PROVE Ledger(d) /\ Flagging(d)
  <2>1. d.event \in {"TRIGGER", "STOP"} /\ d.event = pde.event
    BY <1>1, RunningFacts DEF Scanned, SameEvents
  <2>2. Requested(d)
    BY <1>1, RunningFacts DEF Running, Ledger, Requested, Request, Scanned, SameRequest
  <2>3. Held(d)
    BY <1>1, <1>3, <2>1 DEF Running, Ledger, Held, Scanned, SameTransfer, IsPde, Counts
  <2>4. Ordered(d)
    <3>1. d.current = e.read /\ d.read = e.read /\ d.lastPass = e.lastPass
      BY <1>1 DEF Scanned, SameCounter
    <3>2. 0 <= pde.current /\ pde.current + acquired = e.read
      BY <1>1, <2>1 DEF Running, Ledger, Ordered, Scanned
    <3>3. pde.current \in Int /\ e.read \in Int /\ acquired \in Nat
          /\ e.read <= scans /\ 0 <= e.lastPass
      BY DEF Running, Scanned, IsPde, Counts
    <3> QED BY <3>1, <3>2, <3>3 DEF Ordered
  <2>5. Bounded(d)
    <3>1. Uncounted(d) = Uncounted(pde) /\ Uncounted(pde) \in Nat
      BY <1>1, RunningFacts DEF Uncounted, Scanned, SameEvents
    <3>2. pde.toMove + call.n <= RingScans + Uncounted(pde) /\ pde.toMove >= 0
      BY DEF Running, Ledger, Bounded, Held
    <3>3. d.toMove = 0 /\ d.die /\ call.n \in Nat /\ pde.toMove \in Int
      BY <1>1, RunningFacts DEF Running, IsPde, Counts
    <3> QED BY <3>1, <3>2, <3>3, SizesAssumption DEF Bounded
  <2>6. Awaiting(d) /\ Triggered(d) /\ Ended(d) /\ Owed(d)
    BY <1>1, <2>1 DEF Awaiting, Triggered, Ended, Owed
  <2>7. Flagging(d)
    BY <1>1, <1>3, <2>1 DEF Running, Flagging
  <2> QED BY <2>2, <2>3, <2>4, <2>5, <2>6, <2>7 DEF Ledger
<1> QED BY <1>1, <1>2, <1>3 DEF Outcome, Scanned, d

(* Without a fatal error: no new scan, and the callback changes nothing.   *)
LEMMA IdleLedger ==
  ASSUME Running, NEW d, Scanned(d, 0)
  PROVE  Ledger(d) /\ Flagging(d)
<1>1. /\ IsPde(d) /\ SameTransfer(pde, d) /\ SameRequest(pde, d) /\ d.event = pde.event
      /\ d.trigCount = pde.trigCount /\ d.trigScan = pde.trigScan /\ d.trigSw = pde.trigSw
      /\ d.stopCount = pde.stopCount /\ d.stopScan = pde.stopScan /\ d.stopSw = pde.stopSw
      /\ d.current = pde.current /\ pde.read <= d.read /\ d.read <= scans /\ 0 <= d.lastPass
      /\ d.trigHw \/ d.event # "TRIGGER" \/ d.source # "Hardware" \/ d.read = pde.read
      /\ pde.trigHw => d.trigHw
  BY DEF Running, Scanned, IsPde, Counts
<1>2. pde.read \in Int /\ pde.current \in Int /\ pde.trigScan \in Int
      /\ pde.stopScan \in Int /\ d.read \in Int /\ scans \in Nat
  BY <1>1 DEF Running, IsPde, Counts
<1>3. pde.event # "POSTSTOP"
  BY RunningFacts
<1>4. Requested(d)
  BY <1>1 DEF Running, Ledger, Requested, Request, SameRequest
<1>5. Held(d)
  BY <1>1 DEF Running, Ledger, Held, SameTransfer, SameRequest
<1>6. Ordered(d)
  BY <1>1, <1>2, <1>3 DEF Running, Ledger, Ordered
<1>7. Awaiting(d)
  BY <1>1, <1>2 DEF Running, Ledger, Awaiting, SameRequest
<1>8. Triggered(d)
  BY <1>1, <1>2 DEF Running, Ledger, Triggered, SameRequest, SameTransfer
<1>9. Ended(d) /\ Owed(d) /\ Bounded(d)
  BY <1>1 DEF Running, Ledger, Ended, Owed, Bounded, Uncounted, SameRequest, SameTransfer
<1>10. Flagging(d)
  BY <1>1, <1>2 DEF Running, Flagging, SameRequest, SameTransfer
<1> QED BY <1>4, <1>5, <1>6, <1>7, <1>8, <1>9, <1>10 DEF Ledger

(* A callback that finds new scans between adcSoftTrig's two stores, or in *)
(* adcStart before it moves the heads.                                     *)
LEMMA FlagHarmed ==
  ASSUME NEW e, e.event = "POSTSTOP" \/ e.current # pde.current
  PROVE  Harmful(e) \/ Flagging(e)
BY DEF Harmful, Flagging

LEMMA AdvanceHarmed ==
  ASSUME Running, NEW d, NEW acquired, Scanned(d, acquired), acquired > 0,
         call.at = "startAdvance"
  PROVE  Harmful(StopPhase(d, acquired))
<1> DEFINE c == CheckForStop(d, acquired)
           b == c.d
<1>1. /\ IsPde(d) /\ acquired \in Nat /\ scans \in Nat
      /\ d.transferActive /\ d.sent = pde.sent
      /\ ~d.cyclic => d.inUser <= d.size
      /\ d.transferActive => d.userOpen
  BY DEF Running, Ledger, Held, Scanned, SameTransfer
<1>2. IsPde(b) /\ AlikeButStop(d, b)
  BY <1>1, CheckForStopType, CheckForStopFields
<1>3. StopPhase(d, acquired) = IF c.occurred THEN OnStop(b) ELSE CopyNewScans(b, acquired)
  BY DEF StopPhase
<1> HIDE DEF c, b
<1>4. CASE c.occurred
  <2>1. ~StopPhase(d, acquired).transferActive
    <3> DEFINE x == [SetupPostStopEvent(b) EXCEPT !.current = b.last]
               e == ComputeScansAcquired(x, 0)
               g == AdcDisarmAcquisition(CopyNewScans(e, e.current - e.last))
    <3>1. StopPhase(d, acquired) = AdcStop(g)
      BY <1>3, <1>4 DEF OnStop
    <3>2. IsPde(g)
      <4>1. "POSTSTOP" \in Events /\ FALSE \in BOOLEAN /\ b.last \in Int
        BY <1>2 DEF Events, IsPde, Counts
      <4>2. IsPde(x)
        BY <1>2, <4>1, SMTT(30) DEF SetupPostStopEvent, IsPde, Flags, Counts, Others
      <4> HIDE DEF x
      <4>3. IsPde(e)
        BY <1>1, <4>2, ComputeType
      <4> HIDE DEF e
      <4>4. e.current - e.last \in Int
        BY <4>3 DEF IsPde, Counts
      <4> QED BY <1>1, <4>3, <4>4, CopyNewScansType, DisarmAcquisitionType
    <3> HIDE DEF g
    <3> QED BY <3>1, <3>2, StopFields
  <2> QED BY <2>1 DEF Harmful
<1>5. CASE ~c.occurred
  <2> DEFINE e == CopyNewScans(b, acquired)
  <2>1. Copied(b, e, acquired)
    BY <1>1, <1>2, CopyNewScansFields DEF AlikeButStop, SameTransfer
  <2> HIDE DEF e
  <2>2. ~e.transferActive \/ e.sent = pde.sent + acquired
    BY <1>1, <1>2, <2>1 DEF Copied, Room, AlikeButStop, SameTransfer
  <2>3. ~e.transferActive \/ e.sent # pde.sent
    BY <1>1, <2>2 DEF Running, IsPde, Counts
  <2> QED BY <1>3, <1>5, <2>3 DEF Harmful, e
<1> QED BY <1>4, <1>5

(* A callback that has found new scans and is to look for the stop event.  *)
LEMMA StopReady ==
  ASSUME Running, NEW d, NEW acquired, Scanned(d, acquired), d.event = "STOP",
         acquired > 0, acquired + d.toMove <= RingScans, call.at # "startAdvance"
  PROVE  Ready(d, acquired) /\ Steady
<1>1. /\ IsPde(d) /\ SameTransfer(pde, d) /\ SameRequest(pde, d) /\ d.event = pde.event
      /\ d.trigScan = pde.trigScan /\ d.trigSw = pde.trigSw
      /\ d.stopCount = pde.stopCount /\ d.stopScan = pde.stopScan
      /\ d.stopSw = pde.stopSw /\ d.last = pde.current /\ d.current = d.read
      /\ d.current = pde.current + acquired /\ pde.read <= d.read /\ d.read <= scans
      /\ acquired \in Nat /\ 0 <= d.lastPass
  BY DEF Scanned
<1>2. /\ pde.read \in Int /\ pde.current \in Int /\ pde.stopScan \in Int
      /\ pde.first \in Int /\ pde.sent \in Int /\ pde.toMove \in Int /\ scans \in Nat
      /\ d.read \in Int
  BY <1>1 DEF Running, IsPde, Counts
<1>3. /\ pde.acqActive /\ pde.dropped = 0 /\ call.n \in Nat /\ Uncounted(pde) \in Nat
      /\ Uncounted(d) = Uncounted(pde)
      /\ hist.armed = Request(d) /\ hist.armed \in Configs /\ call.at # "armWait"
      /\ hist.armed.pre \in Nat
  BY <1>1, RunningFacts
     DEF Running, Ledger, Held, Uncounted, Request, SameRequest
<1>4. pde.toMove + call.n <= RingScans + Uncounted(pde) /\ pde.toMove >= 0
  BY DEF Running, Ledger, Bounded, Held
<1>5. Holding => pde.transferActive /\ pde.toMove = 0
  BY <1>2 DEF Running, Ledger, Held, Holding
<1>6. /\ d.first + d.sent + d.toMove + call.n = d.last + 1
      /\ d.first >= (IF d.trigSw THEN 0 ELSE 1)
  BY <1>1, <1>2, <1>3 DEF Running, Ledger, Owed, SameTransfer
<1>7. Ready(d, acquired)
  <2>1. /\ d.acqActive /\ ~d.wild
        /\ d.configured => Request(d) \in Configs
    BY <1>1, <1>3 DEF Running, Ledger, Requested, Held, Request, SameRequest, SameTransfer
  <2>2. /\ d.toMove >= 0 /\ d.sent >= 0 /\ d.inUser >= 0 /\ d.dropped = 0
        /\ ~d.cyclic => d.inUser <= d.size
        /\ d.transferActive => d.userOpen
        /\ call.at = "startOpen" => ~d.transferActive /\ d.configured
        /\ d.transferActive => d.toMove = 0 \/ call.at = "startTake"
        /\ call.at \in {"startTake", "startCopy"} => d.transferActive \/ d.die
    BY <1>1, <1>3 DEF Running, Ledger, Held, SameTransfer, SameRequest
  <2>3. 0 <= d.last /\ d.last + acquired = d.current
    BY <1>1 DEF Running, Ledger, Ordered
  <2>4. /\ d.first = d.trigScan - d.pre /\ 1 <= d.trigScan /\ d.trigScan <= pde.current
        /\ d.stopCount = AtLeast(0, d.trigScan - 1 + d.post - d.last)
        /\ d.stop = "ScanCount" => d.trigScan - 1 + d.post > d.last
        /\ d.stopSw /\ d.stop = "Software" =>
             d.stopCount = 0 /\ d.last <= d.stopScan /\ d.stopScan <= pde.read
    BY <1>1, <1>3 DEF Running, Ledger, Triggered, SameTransfer, SameRequest
  <2>5. d.trigScan - 1 <= d.last /\ (d.stopScan <= pde.read => d.stopScan <= d.current)
    BY <1>1, <1>2, <2>4 DEF IsPde, Counts
  <2>6. /\ d.toMove + acquired <= RingScans + Uncounted(d)
        /\ call.n <= RingScans + Uncounted(d)
        /\ acquired <= RingScans
    BY <1>1, <1>2, <1>3, <1>4, <2>2, SizesAssumption DEF SameTransfer, IsPde, Counts
  <2>7. Holding => d.transferActive /\ d.toMove = 0 /\ acquired <= RingScans
    BY <1>1, <1>5, <2>6 DEF SameTransfer
  <2> QED BY <1>1, <1>3, <1>6, <2>1, <2>2, <2>3, <2>4, <2>5, <2>6, <2>7 DEF Ready
<1>8. Steady
  BY <1>3 DEF Steady, Running, Ledger, Held
<1> QED BY <1>7, <1>8

LEMMA StopLedger ==
  ASSUME Running, NEW d, NEW acquired, Scanned(d, acquired), d.event = "STOP",
         acquired > 0, acquired + d.toMove <= RingScans
  PROVE  LET e == StopPhase(d, acquired)
         IN  Outcome(e) /\ (Harmful(e) \/ e.first = pde.first)
<1> DEFINE e == StopPhase(d, acquired)
<1>1. CASE call.at = "startAdvance"
  BY <1>1, AdvanceHarmed DEF Outcome
<1>2. CASE call.at # "startAdvance"
  <2>1. /\ IsPde(d) /\ SameTransfer(pde, d) /\ SameRequest(pde, d) /\ d.event = pde.event
        /\ d.trigScan = pde.trigScan /\ d.trigSw = pde.trigSw
        /\ d.stopCount = pde.stopCount /\ d.stopScan = pde.stopScan
        /\ d.stopSw = pde.stopSw /\ d.last = pde.current /\ d.current = d.read
        /\ d.current = pde.current + acquired /\ pde.read <= d.read /\ d.read <= scans
        /\ acquired \in Nat /\ 0 <= d.lastPass
    BY DEF Scanned
  <2>2. /\ pde.read \in Int /\ pde.current \in Int /\ pde.stopScan \in Int
        /\ pde.first \in Int /\ pde.sent \in Int /\ pde.toMove \in Int /\ scans \in Nat
        /\ d.read \in Int
    BY <2>1 DEF Running, IsPde, Counts
  <2>3. /\ pde.acqActive /\ pde.dropped = 0 /\ call.n \in Nat /\ Uncounted(pde) \in Nat
        /\ Uncounted(d) = Uncounted(pde)
        /\ hist.armed = Request(d) /\ hist.armed \in Configs /\ call.at # "armWait"
        /\ hist.armed.pre \in Nat
    BY <2>1, RunningFacts
       DEF Running, Ledger, Held, Uncounted, Request, SameRequest
  <2>4. Ready(d, acquired) /\ Steady
    BY <1>2, StopReady
  <2>5. /\ Ledger(e) \/ Snatched(d, e)
        /\ e.event = "POSTSTOP" \/ (e.event = "STOP" /\ e.current = d.current)
        /\ e.first = d.first
    BY <2>1, <2>2, <2>3, <2>4, StopPhaseLedger
  <2> HIDE DEF e
  <2>6. Harmful(e) \/ Flagging(e)
    BY <2>1, <2>2, <2>5, FlagHarmed
  <2>7. Snatched(d, e) => Harmful(e)
    BY <2>1 DEF Snatched, Harmful, SameTransfer
  <2>8. e.first = pde.first
    BY <2>1, <2>5 DEF SameTransfer
  <2> QED BY <2>5, <2>6, <2>7, <2>8 DEF Outcome, e
<1> QED BY <1>1, <1>2

(* The trigger is not in the data yet: only its counts change.             *)
LEMMA StillAwaiting ==
  ASSUME Running, NEW d, NEW acquired, Scanned(d, acquired), d.event = "TRIGGER",
         acquired > 0, NEW e, IsPde(e), AlikeButTrigger(d, e),
         TriggerFound(d, acquired, FALSE, e)
  PROVE  Ledger(e)
<1>1. /\ IsPde(d) /\ SameTransfer(pde, d) /\ SameRequest(pde, d) /\ d.event = pde.event
      /\ d.trigCount = pde.trigCount /\ d.trigScan = pde.trigScan /\ d.trigSw = pde.trigSw
      /\ d.stopCount = pde.stopCount /\ d.stopSw = pde.stopSw
      /\ d.current = d.read /\ d.current = pde.current + acquired
      /\ pde.read <= d.read /\ d.read <= scans /\ 0 <= d.lastPass
      /\ d.trigHw \/ d.event # "TRIGGER" \/ d.source # "Hardware" \/ d.read = pde.read
      /\ pde.trigHw => d.trigHw
      /\ acquired \in Nat
  BY DEF Scanned
<1>2. /\ pde.read \in Int /\ pde.current \in Int /\ pde.trigScan \in Int
      /\ pde.trigCount \in Int /\ pde.pre \in Nat /\ scans \in Nat /\ d.read \in Int
  BY <1>1 DEF Running, IsPde, Counts
<1>3. /\ SameTransfer(pde, e) /\ e.event = "TRIGGER"
      /\ e.source = pde.source /\ e.stop = pde.stop /\ e.pre = pde.pre
      /\ e.post = pde.post /\ e.configured = pde.configured
      /\ e.acqActive = pde.acqActive /\ e.dma = pde.dma /\ e.pacer = pde.pacer
      /\ e.trigSw = pde.trigSw /\ e.trigHw = d.trigHw /\ e.trigScan = pde.trigScan
      /\ e.stopCount = pde.stopCount /\ e.stopSw = pde.stopSw
      /\ e.current = d.current /\ e.read = d.read /\ e.lastPass = d.lastPass
  BY <1>1 DEF AlikeButTrigger, TriggerFound, SameTransfer, SameRequest, SameCounter
<1>4. /\ pde.acqActive
      /\ 0 <= pde.current /\ pde.current <= pde.read
      /\ pde.trigCount = AtLeast(0, pde.pre - pde.current)
      /\ pde.stopCount = pde.post /\ ~pde.stopSw
      /\ pde.pacer = "waiting" => scans = 0
      /\ pde.source \in {"Immediate", "Hardware"} => pde.current = 0 /\ pde.pre = 0
      /\ pde.source = "Hardware" /\ ~pde.trigHw => pde.read = 0
      /\ pde.trigSw => /\ pde.pre <= pde.trigScan /\ pde.current <= pde.trigScan
                       /\ pde.trigScan <= pde.read
  BY <1>1, RunningFacts DEF Running, Ledger, Ordered, Awaiting
<1>5. Requested(e)
  BY <1>3 DEF Running, Ledger, Requested, Request
<1>6. Held(e)
  BY <1>1, <1>3 DEF Running, Ledger, Held, SameTransfer
<1>n. /\ e.current = d.read /\ e.read = d.read /\ d.read = pde.current + acquired
      /\ d.current = d.read /\ pde.read <= d.read /\ d.read <= scans
      /\ 0 <= e.lastPass /\ acquired \in Nat
  BY <1>1, <1>3
<1>7. Ordered(e)
  <2>1. 0 <= pde.current
    BY <1>4
  <2> QED BY <1>2, <1>n, <2>1 DEF Ordered
<1>8. pde.trigSw => acquired <= pde.trigCount
  BY <1>1 DEF TriggerFound, IsPde, Counts
<1>9. e.trigCount = AtLeast(0, e.pre - e.current)
  <2>1. CASE acquired <= d.trigCount
    BY <1>1, <1>2, <1>3, <1>4, <2>1 DEF TriggerFound, AtLeast
  <2>2. CASE acquired > d.trigCount
    BY <1>1, <1>2, <1>3, <1>4, <2>2 DEF TriggerFound, AtLeast
  <2> QED BY <1>1, <1>2, <2>1, <2>2
<1>10. pde.source # "Immediate"
  BY <1>1, <1>2, <1>4, <1>8 DEF TriggerFound, AtLeast, SameRequest
<1>11. pde.source # "Hardware"
  <2>1. SUFFICES ASSUME pde.source = "Hardware" PROVE FALSE
    OBVIOUS
  <2>2. d.trigCount = 0 /\ acquired > d.trigCount /\ ~pde.trigSw
    <3>1. pde.pre = 0 /\ pde.current = 0 /\ d.trigCount = AtLeast(0, pde.pre - pde.current)
      BY <1>1, <1>4, <2>1
    <3>2. d.trigCount = 0
      BY <3>1 DEF AtLeast
    <3> QED BY <1>1, <1>n, <1>8, <3>2
  <2>3. ~d.trigHw
    BY <1>1, <2>1, <2>2 DEF TriggerFound, SameRequest
  <2>4. d.read = pde.read /\ pde.read = 0
    BY <1>1, <1>4, <2>1, <2>3 DEF SameRequest
  <2>5. pde.current = 0
    BY <1>4, <2>1
  <2> QED BY <1>2, <1>n, <2>4, <2>5
<1>12. pde.trigSw => /\ e.pre <= e.trigScan /\ e.current <= e.trigScan
                    /\ e.trigScan <= e.read
  <2> SUFFICES ASSUME pde.trigSw
               PROVE  e.pre <= e.trigScan /\ e.current <= e.trigScan /\ e.trigScan <= e.read
    OBVIOUS
  <2>1. /\ acquired <= AtLeast(0, pde.pre - pde.current)
        /\ pde.pre <= pde.trigScan /\ pde.trigScan <= pde.read
    BY <1>4, <1>8
  <2>2. pde.current + acquired <= pde.pre
    BY <1>1, <1>2, <1>n, <2>1 DEF AtLeast
  <2> QED BY <1>2, <1>3, <1>n, <2>1, <2>2
<1>13. Awaiting(e)
  BY <1>3, <1>4, <1>9, <1>10, <1>11, <1>12 DEF Awaiting
<1>14. Triggered(e) /\ Ended(e) /\ Owed(e)
  BY <1>3 DEF Triggered, Ended, Owed
<1>15. Bounded(e)
  BY <1>3 DEF Running, Ledger, Bounded, Uncounted, SameTransfer
<1> QED BY <1>5, <1>6, <1>7, <1>13, <1>14, <1>15 DEF Ledger

(* The trigger scan has been found: what the search for the stop is given. *)
LEMMA TriggerReady ==
  ASSUME Running, NEW d, NEW acquired, Scanned(d, acquired), d.event = "TRIGGER",
         acquired > 0, acquired + d.toMove <= RingScans,
         NEW b, IsPde(b), AlikeButTrigger(d, b), TriggerFound(d, acquired, TRUE, b)
  PROVE  LET t == OnTrigger(b)
             left == b.current - b.trigScan + 1
         IN  /\ IsPde(t) /\ left \in Nat /\ Ready(t, left) /\ Steady
             /\ t.current = d.current
             /\ t.transferActive => t.toMove = 0
             /\ pde.current < t.first + Uncounted(pde)
<1> DEFINE t == OnTrigger(b)
           left == b.current - b.trigScan + 1
<1>1. /\ IsPde(d) /\ SameTransfer(pde, d) /\ SameRequest(pde, d) /\ d.event = pde.event
      /\ d.trigCount = pde.trigCount /\ d.trigScan = pde.trigScan /\ d.trigSw = pde.trigSw
      /\ d.stopCount = pde.stopCount /\ d.stopSw = pde.stopSw /\ d.stale = pde.stale
      /\ d.current = d.read /\ d.current = pde.current + acquired
      /\ pde.read <= d.read /\ d.read <= scans /\ 0 <= d.lastPass
      /\ acquired \in Nat
  BY DEF Scanned
<1>2. /\ pde.read \in Int /\ pde.current \in Int /\ pde.trigScan \in Int
      /\ pde.trigCount \in Int /\ pde.pre \in Nat /\ pde.post \in Nat /\ scans \in Nat
      /\ d.read \in Int /\ pde.inUser \in Int /\ pde.size \in Int
      /\ pde.cyclic \in BOOLEAN /\ pde.trigSw \in BOOLEAN /\ b.trigScan \in Int
  BY <1>1 DEF Running, IsPde, Flags, Counts
<1>3. /\ SameTransfer(pde, b) /\ SameRequest(pde, b) /\ b.stale = pde.stale
      /\ b.trigSw = pde.trigSw /\ b.stopCount = pde.stopCount /\ b.stopSw = pde.stopSw
      /\ b.current = d.current /\ b.read = d.read /\ b.lastPass = d.lastPass
  BY <1>1 DEF AlikeButTrigger, SameTransfer, SameRequest, SameCounter
<1>4. /\ pde.acqActive
      /\ pde.stop = "Infinite" \/ pde.post > 0
      /\ 0 <= pde.current /\ pde.current <= pde.read
      /\ pde.trigCount = AtLeast(0, pde.pre - pde.current)
      /\ pde.stopCount = pde.post /\ ~pde.stopSw
      /\ pde.source \in {"Immediate", "Hardware"} => pde.current = 0 /\ pde.pre = 0
      /\ pde.trigSw => /\ pde.pre <= pde.trigScan /\ pde.current <= pde.trigScan
                       /\ pde.trigScan <= pde.read
  <2>1. pde.acqActive /\ (pde.stop = "Infinite" \/ pde.post > 0)
        /\ (pde.source \in {"Immediate", "Hardware"} => pde.pre = 0)
    BY <1>2, RunningFacts
  <2> QED BY <1>1, <2>1 DEF Running, Ledger, Ordered, Awaiting
<1>5. /\ pde.toMove = 0 /\ pde.sent = 0 /\ pde.dropped = 0 /\ ~Holding /\ call.n = 0
      /\ ~pde.wild /\ pde.inUser >= 0 /\ (~pde.cyclic => pde.inUser <= pde.size)
      /\ pde.transferActive => pde.userOpen
      /\ call.at = "startOpen" => ~pde.transferActive /\ pde.configured
  BY <1>1 DEF Running, Ledger, Held
<1>6. acquired > d.trigCount
  BY <1>1, <1>2 DEF TriggerFound
<1>7. /\ 1 <= b.trigScan /\ b.trigScan <= b.current /\ pde.current <= b.trigScan
      /\ b.trigScan - pde.pre >= (IF pde.trigSw THEN 0 ELSE 1)
      /\ ~pde.trigSw => pde.current < b.trigScan
  <2>1. CASE pde.trigSw
    <3>1. b.trigScan = AtLeast(1, pde.trigScan)
      BY <1>1, <1>6, <2>1 DEF TriggerFound
    <3> QED BY <1>1, <1>2, <1>3, <1>4, <2>1, <3>1 DEF AtLeast
  <2>2. CASE ~pde.trigSw /\ pde.source \in {"Immediate", "Hardware"}
    <3>1. b.trigScan = 1
      BY <1>1, <1>6, <2>2 DEF TriggerFound, SameRequest
    <3> QED BY <1>1, <1>2, <1>3, <1>4, <2>2, <3>1
  <2>3. CASE ~pde.trigSw /\ pde.source = "Level"
    <3>1. d.current - acquired + d.trigCount < b.trigScan /\ b.trigScan <= d.current
      BY <1>1, <1>6, <2>3 DEF TriggerFound, SameRequest
    <3> QED BY <1>1, <1>2, <1>3, <1>4, <2>3, <3>1 DEF AtLeast
  <2>4. ~(~pde.trigSw /\ pde.source = "Software")
    BY <1>1, <1>6 DEF TriggerFound, SameRequest
  <2>5. pde.source \in {"Immediate", "Hardware", "Level", "Software"}
    BY DEF Running, IsPde, Sources
  <2> QED BY <1>2, <2>1, <2>2, <2>3, <2>4, <2>5
<1>8. IsPde(t) /\ Triggers(b, t)
  BY <1>3, <1>5, OnTriggerType, OnTriggerFields DEF Running, SameTransfer
<1> HIDE DEF t
<1>9. Fills(b, pde.pre) = Fills(pde, pde.pre) /\ Room(b, pde.pre) = Room(pde, pde.pre)
      /\ b.pre = pde.pre
  BY <1>3 DEF Fills, Room, SameTransfer, SameRequest
<1> DEFINE m == Room(pde, pde.pre)
<1>10. m \in Nat /\ m <= pde.pre /\ (~Fills(pde, pde.pre) => m = pde.pre)
       /\ (~pde.cyclic => pde.inUser + m <= pde.size)
  BY <1>2, <1>5 DEF Room, Fills
<1> HIDE DEF m
<1>11. /\ t.toMove = IF ~pde.transferActive THEN pde.pre
                     ELSE IF Fills(pde, pde.pre) THEN pde.pre - m ELSE 0
       /\ t.sent = IF pde.transferActive THEN m ELSE 0
       /\ t.inUser = IF pde.transferActive THEN pde.inUser + m ELSE pde.inUser
       /\ t.transferActive <=> pde.transferActive /\ ~Fills(pde, pde.pre)
       /\ t.die <=> pde.die \/ (pde.transferActive /\ Fills(pde, pde.pre))
       /\ t.transferActive => t.userOpen
       /\ t.cyclic = pde.cyclic /\ t.size = pde.size /\ t.dropped = 0 /\ ~t.wild
  BY <1>2, <1>3, <1>5, <1>8, <1>9, <1>10 DEF m, Triggers, SameTransfer
<1>12. /\ t.event = "STOP" /\ t.acqActive /\ t.configured = pde.configured
       /\ Request(t) = Request(pde)
       /\ t.source = pde.source /\ t.stop = pde.stop /\ t.pre = pde.pre
       /\ t.post = pde.post /\ t.stopCount = pde.post /\ ~t.stopSw
       /\ t.trigScan = b.trigScan /\ t.trigSw = pde.trigSw
       /\ t.read = d.current /\ t.current = d.current /\ t.lastPass = d.lastPass
       /\ t.last = b.trigScan - 1 /\ t.first = b.trigScan - pde.pre
       /\ Uncounted(t) = pde.pre + (IF pde.trigSw THEN 1 ELSE 0)
  <2>1. hist.armed.pre = pde.pre
    BY RunningFacts
  <2>2. SameRequest(pde, t) /\ SameRequest(b, t)
    BY <1>3, <1>8 DEF Triggers, SameRequest
  <2>3. /\ t.configured = pde.configured /\ t.acqActive = pde.acqActive
        /\ t.source = pde.source /\ t.stop = pde.stop /\ t.pre = pde.pre
        /\ t.post = pde.post /\ b.pre = pde.pre
    BY <1>3, <2>2 DEF SameRequest
  <2>4. /\ t.event = "STOP" /\ t.stopCount = b.stopCount /\ t.stopSw = b.stopSw
        /\ t.trigScan = b.trigScan /\ t.trigSw = b.trigSw
        /\ t.read = b.read /\ t.current = b.current /\ t.lastPass = b.lastPass
        /\ t.last = b.trigScan - 1 /\ t.first = b.trigScan - b.pre
    BY <1>8 DEF Triggers
  <2>5. /\ pde.acqActive /\ b.stopCount = pde.post /\ ~b.stopSw
        /\ b.trigSw = pde.trigSw /\ b.current = d.current /\ b.read = d.current
        /\ b.lastPass = d.lastPass
    BY <1>1, <1>3, <1>4
  <2>6. Request(t) = Request(pde)
    BY <2>3 DEF Request
  <2>7. Uncounted(t) = pde.pre + (IF pde.trigSw THEN 1 ELSE 0)
    BY <2>1, <2>4, <2>5 DEF Uncounted
  <2> QED BY <2>3, <2>4, <2>5, <2>6, <2>7
<1>13. left \in Nat /\ left > 0 /\ left <= acquired + (IF pde.trigSw THEN 1 ELSE 0)
  BY <1>1, <1>2, <1>3, <1>7
<1>14. /\ t.toMove \in Nat /\ t.toMove <= pde.pre /\ t.sent \in Nat /\ t.inUser \in Nat
       /\ t.sent + t.toMove = pde.pre /\ (~t.cyclic => t.inUser <= t.size)
       /\ t.transferActive => t.toMove = 0
  BY <1>2, <1>5, <1>10, <1>11
<1>15. acquired <= RingScans
  BY <1>1, <1>5 DEF SameTransfer, IsPde, Counts
<1>16. Ready(t, left)
  <2>1. /\ hist.armed = Request(t) /\ hist.armed \in Configs
        /\ t.configured => Request(t) \in Configs
    BY <1>12, RunningFacts DEF Running, Ledger, Requested
  <2>2. call.at \in {"startTake", "startCopy"} => t.transferActive \/ t.die
    BY <1>11 DEF Running, Ledger, Held
  <2>3. /\ 0 <= t.last /\ t.last + left = t.current /\ t.current = t.read
        /\ t.read <= scans /\ 0 <= t.lastPass
        /\ t.first = t.trigScan - t.pre /\ 1 <= t.trigScan /\ t.trigScan - 1 <= t.last
        /\ t.first >= (IF t.trigSw THEN 0 ELSE 1)
    BY <1>1, <1>2, <1>3, <1>7, <1>12
  <2>4. t.first + t.sent + t.toMove + call.n = t.last + 1
    BY <1>2, <1>5, <1>12, <1>14
  <2>5. /\ t.stopCount = AtLeast(0, t.trigScan - 1 + t.post - t.last)
        /\ t.stop = "ScanCount" => t.trigScan - 1 + t.post > t.last
    BY <1>2, <1>4, <1>12 DEF AtLeast
  <2>6. /\ t.toMove + left <= RingScans + Uncounted(t)
        /\ call.n <= RingScans + Uncounted(t)
    BY <1>1, <1>2, <1>5, <1>12, <1>13, <1>14, <1>15, SizesAssumption
  <2> QED BY <1>5, <1>11, <1>12, <1>13, <1>14, <2>1, <2>2, <2>3, <2>4, <2>5, <2>6 DEF Ready
<1>17. Steady
  BY <1>5, RunningFacts DEF Steady, Holding
<1>18. pde.current < t.first + Uncounted(pde)
  <2>1. Uncounted(pde) = pde.pre + (IF pde.trigSw THEN 1 ELSE 0)
    BY RunningFacts DEF Uncounted
  <2> QED BY <1>2, <1>7, <1>12, <2>1
<1> QED BY <1>8, <1>12, <1>13, <1>14, <1>16, <1>17, <1>18 DEF t

LEMMA TriggerLedger ==
  ASSUME Running, NEW d, NEW acquired, Scanned(d, acquired), d.event = "TRIGGER",
         acquired > 0, acquired + d.toMove <= RingScans
  PROVE  LET e == TriggerPhase(d, acquired)
         IN  /\ Outcome(e)
             /\ e.stale = d.stale \/ pde.current < e.first + Uncounted(pde)
<1> DEFINE c == CheckForTrigger(d, acquired)
           b == c.d
           t == OnTrigger(b)
           left == b.current - b.trigScan + 1
           e == TriggerPhase(d, acquired)
<1>1. /\ IsPde(d) /\ acquired \in Nat /\ d.current = pde.current + acquired
      /\ pde.current \in Int /\ d.stale = pde.stale /\ d.trigSw = pde.trigSw
      /\ scans \in Nat /\ d.toMove = 0 /\ pde.pre \in Nat
      /\ hist.armed.pre \in Nat
  BY RunningFacts DEF Running, Ledger, Held, Scanned, SameTransfer, IsPde, Counts
<1>2. IsPde(b) /\ AlikeButTrigger(d, b) /\ TriggerFound(d, acquired, c.occurred, b)
  <2>1. acquired \in Int
    BY <1>1
  <2>2. IsPde(b)
    BY <1>1, <2>1, CheckForTriggerType
  <2>3. AlikeButTrigger(d, b) /\ TriggerFound(d, acquired, c.occurred, b)
    BY <1>1, CheckForTriggerFields
  <2> QED BY <2>2, <2>3
<1>3. e = IF c.occurred THEN StopPhase(t, left) ELSE b
  BY <1>1 DEF TriggerPhase
<1> HIDE DEF c, b, e
<1>5. CASE ~c.occurred
  <2>1. TriggerFound(d, acquired, FALSE, b)
    BY <1>2, <1>5 DEF TriggerFound
  <2>2. Ledger(b)
    BY <1>2, <2>1, StillAwaiting
  <2>3. b.current = d.current /\ b.stale = d.stale
    BY <1>2 DEF AlikeButTrigger, SameCounter
  <2>4. Harmful(b) \/ Flagging(b)
    BY <1>1, <2>3, FlagHarmed
  <2> QED BY <1>3, <1>5, <2>2, <2>3, <2>4 DEF Outcome, e
<1>6. CASE c.occurred
  <2>1. TriggerFound(d, acquired, TRUE, b)
    BY <1>2, <1>6 DEF TriggerFound
  <2>2. /\ IsPde(t) /\ left \in Nat /\ Ready(t, left) /\ Steady
        /\ t.current = d.current
        /\ t.transferActive => t.toMove = 0
        /\ pde.current < t.first + Uncounted(pde)
    BY <1>2, <2>1, TriggerReady
  <2> HIDE DEF t, left
  <2>3. /\ Ledger(e) \/ Snatched(t, e)
        /\ e.event = "POSTSTOP" \/ (e.event = "STOP" /\ e.current = t.current)
        /\ e.first = t.first
    BY <1>1, <1>3, <1>6, <2>2, StopPhaseLedger
  <2>4. ~Snatched(t, e)
    BY <2>2 DEF Snatched
  <2>5. Harmful(e) \/ Flagging(e)
    BY <1>1, <2>2, <2>3, FlagHarmed
  <2> QED BY <2>2, <2>3, <2>4, <2>5 DEF Outcome, e
<1> QED BY <1>5, <1>6

(* The scans that the board has overwritten of those that a callback       *)
(* copies into an unspoilt buffer are at most so many.                     *)
Unnoticed(lag) == lag + call.n + (IF pde.event = "TRIGGER" THEN Uncounted(pde) ELSE 0)

CopiesAtMost(d, n) == scans - RingScans - (d.first + pde.sent) + 1 <= n

(* What a callback makes of an acquisition that no race has touched: the   *)
(* ledger still balances, unless it hit a place where it does harm; and    *)
(* the check of adcCheckFatalErrors bounds what it copies too late.        *)
LEMMA CallbackLedger ==
  ASSUME Running, NEW lag \in Nat
  PROVE  LET d == CheckEventsAndMoveData(pde, lag)
         IN  /\ Outcome(d)
             /\ \/ d.stale = pde.stale \/ Harmful(d)
                \/ CopiesAtMost(d, Unnoticed(lag) - pde.lastPass)
<1> DEFINE e == ComputeScansAcquired(pde, lag)
           acquired == e.current - e.last
           f == AdcCheckFatalErrors(e, acquired)
           d == CheckEventsAndMoveData(pde, lag)
<1>1. /\ IsPde(pde) /\ scans \in Nat /\ pde.event \in {"TRIGGER", "STOP"}
      /\ fault \in BOOLEAN
  BY RunningFacts DEF Running
<1>2. /\ 0 <= pde.current /\ pde.current <= pde.read /\ pde.read <= scans
      /\ 0 <= pde.lastPass
  BY <1>1 DEF Running, Ledger, Ordered
<1>3. IsPde(e)
  BY <1>1, ComputeType
<1>4. /\ SameTransfer(pde, e) /\ SameRequest(pde, e) /\ e.stale = pde.stale
      /\ e.event = pde.event
      /\ e.trigCount = pde.trigCount /\ e.trigScan = pde.trigScan
      /\ e.trigSw = pde.trigSw
      /\ e.stopCount = pde.stopCount /\ e.stopScan = pde.stopScan
      /\ e.stopSw = pde.stopSw
      /\ e.lastPass = pde.lastPass /\ e.last = pde.current /\ e.current = e.read
      /\ pde.read <= e.read /\ e.read <= scans
      /\ \/ e.trigHw \/ pde.event # "TRIGGER" \/ pde.source # "Hardware"
         \/ e.read = pde.read
      /\ pde.trigHw => e.trigHw
      /\ \/ scans <= e.current + lag
         \/ /\ pde.event = "TRIGGER" /\ pde.source = "Hardware" /\ ~pde.trigHw
            /\ e.read = pde.read
  BY <1>1, <1>2, ComputeFields
<1>5. d = IF fault \/ Overrun(e, acquired) THEN f
          ELSE IF f.event = "TRIGGER" THEN TriggerPhase(f, acquired)
          ELSE StopPhase(f, acquired)
  BY DEF CheckEventsAndMoveData
<1> HIDE DEF e, f, d
<1>6. /\ acquired \in Nat /\ e.current = pde.current + acquired
      /\ e.current \in Int /\ pde.current \in Int /\ pde.read \in Int
  BY <1>1, <1>2, <1>3, <1>4 DEF IsPde, Counts
<1> HIDE DEF acquired
<1>7. Scanned(e, acquired)
  <2>1. e.source = pde.source
    BY <1>4 DEF SameRequest
  <2> QED BY <1>2, <1>3, <1>4, <1>6, <2>1 DEF Scanned
<1>8. CASE fault \/ Overrun(e, acquired)
  BY <1>5, <1>7, <1>8, FatalLedger DEF f, d
<1>9. CASE ~(fault \/ Overrun(e, acquired))
  <2>1. f = [e EXCEPT !.lastPass = acquired]
    BY <1>9 DEF f, AdcCheckFatalErrors
  <2>2. /\ IsPde(f) /\ SameEvents(e, f) /\ SameTransfer(e, f) /\ SameRequest(e, f)
        /\ f.stale = e.stale /\ f.last = e.last /\ f.current = e.current
        /\ f.read = e.read /\ f.lastPass = acquired
    BY <1>3, <1>6, <2>1, SMTT(30) DEF SameEvents, SameTransfer, SameRequest,
                                      IsPde, Flags, Counts, Others
  <2>3. SameTransfer(pde, f) /\ SameRequest(pde, f)
    BY <1>4, <2>2 DEF SameTransfer, SameRequest
  <2>4. Scanned(f, acquired)
    <3>1. /\ f.event = e.event /\ f.trigCount = e.trigCount /\ f.trigScan = e.trigScan
          /\ f.trigSw = e.trigSw /\ f.trigHw = e.trigHw /\ f.stopCount = e.stopCount
          /\ f.stopScan = e.stopScan /\ f.stopSw = e.stopSw /\ f.source = e.source
          /\ e.source = pde.source
      BY <1>4, <2>2 DEF SameEvents, SameRequest
    <3>2. 0 <= f.lastPass
      BY <1>6, <2>2
    <3>3. /\ f.stale = pde.stale /\ f.event = pde.event
          /\ f.trigCount = pde.trigCount /\ f.trigScan = pde.trigScan
          /\ f.trigSw = pde.trigSw
          /\ f.stopCount = pde.stopCount /\ f.stopScan = pde.stopScan
          /\ f.stopSw = pde.stopSw
          /\ f.last = pde.current /\ f.current = f.read
          /\ f.current = pde.current + acquired
          /\ pde.read <= f.read /\ f.read <= scans
      BY <1>4, <1>6, <2>2, <3>1
    <3>4. /\ \/ f.trigHw \/ f.event # "TRIGGER" \/ f.source # "Hardware"
             \/ f.read = pde.read
          /\ pde.trigHw => f.trigHw
      BY <1>4, <2>2, <3>1
    <3> QED BY <1>6, <2>2, <2>3, <3>2, <3>3, <3>4 DEF Scanned
  <2>5. /\ acquired + pde.lastPass + f.toMove <= RingScans
        /\ acquired + f.toMove <= RingScans
        /\ f.toMove = pde.toMove /\ pde.toMove \in Int /\ pde.lastPass \in Int
    <3>1. /\ f.toMove = e.toMove /\ e.toMove = pde.toMove
          /\ e.toMove \in Int /\ e.lastPass \in Int
      BY <1>3, <1>4, <2>2 DEF SameTransfer, IsPde, Counts
    <3> QED BY <1>2, <1>4, <1>6, <1>9, <3>1, SizesAssumption DEF Overrun
  <2>6. f.event = pde.event
    BY <1>4, <2>2 DEF SameEvents
  <2>7. CASE acquired = 0
    <3>1. d = f
      BY <1>5, <1>9, <2>7 DEF TriggerPhase, StopPhase
    <3>2. Scanned(f, 0)
      BY <2>4, <2>7
    <3> QED BY <1>4, <2>2, <3>1, <3>2, IdleLedger DEF Outcome, d
  <2>8. CASE acquired > 0
    <3>1. scans <= f.current + lag
      <4>1. SUFFICES ASSUME pde.event = "TRIGGER", pde.source = "Hardware", ~pde.trigHw,
                            e.read = pde.read
                     PROVE  FALSE
        BY <1>4, <2>2
      <4>2. pde.read = 0
        BY <4>1, RunningFacts DEF Running, Ledger, Awaiting
      <4>3. e.current = 0 /\ 0 <= pde.current
        BY <1>2, <1>4, <4>1, <4>2
      <4> QED BY <1>6, <2>8, <4>3
    <3>2. /\ pde.first \in Int /\ pde.sent \in Int /\ call.n \in Int
          /\ Uncounted(pde) \in Int /\ pde.toMove >= 0 /\ pde.sent >= 0
          /\ pde.event = "TRIGGER" => pde.sent = 0 /\ call.n = 0
          /\ f.current = pde.current + acquired
      <4>1. Uncounted(pde) \in Int /\ call.n \in Int
        BY RunningFacts
      <4> QED BY <1>1, <1>6, <2>2, <4>1 DEF Running, Ledger, Held, Holding, IsPde, Counts
    <3>3. CASE f.event = "TRIGGER"
      <4> DEFINE g == TriggerPhase(f, acquired)
      <4>1. Outcome(g) /\ (g.stale = f.stale \/ pde.current < g.first + Uncounted(pde))
        BY <2>4, <2>5, <2>8, <3>3, TriggerLedger
      <4>2. IsPde(g)
        BY <1>1, <1>6, <2>2, TriggerPhaseType
      <4> HIDE DEF g
      <4>3. ASSUME pde.current < g.first + Uncounted(pde)
            PROVE  CopiesAtMost(g, Unnoticed(lag) - pde.lastPass)
        <5>1. g.first \in Int
          BY <4>2 DEF IsPde, Counts
        <5>2. scans - RingScans - g.first + 1 <= lag + Uncounted(pde) - pde.lastPass
          BY <1>1, <1>6, <2>5, <3>1, <3>2, <4>3, <5>1, SizesAssumption
        <5>3. pde.event = "TRIGGER" /\ pde.sent = 0 /\ call.n = 0
          BY <2>6, <3>2, <3>3
        <5> QED BY <1>1, <2>5, <3>2, <5>1, <5>2, <5>3, SizesAssumption
                DEF CopiesAtMost, Unnoticed
      <4> QED BY <1>4, <1>5, <1>9, <2>2, <3>3, <4>1, <4>3 DEF d, g
    <3>4. CASE f.event = "STOP"
      <4> DEFINE g == StopPhase(f, acquired)
      <4>1. Outcome(g) /\ (Harmful(g) \/ g.first = pde.first)
        BY <2>4, <2>5, <2>8, <3>4, StopLedger
      <4> HIDE DEF g
      <4>2. ASSUME g.first = pde.first
            PROVE  CopiesAtMost(g, Unnoticed(lag) - pde.lastPass)
        <5>1. pde.first + pde.sent + pde.toMove + call.n = pde.current + 1
          BY <1>6, <2>5, <2>6, <3>2, <3>4, RunningFacts DEF Running, Ledger, Held, Owed
        <5>2. scans - RingScans - (pde.first + pde.sent) + 1 <= lag + call.n - pde.lastPass
          BY <1>1, <1>6, <2>5, <3>1, <3>2, <5>1, SizesAssumption
        <5>3. pde.event # "TRIGGER"
          BY <2>6, <3>4
        <5> QED BY <1>1, <2>5, <3>2, <4>2, <5>2, <5>3, SizesAssumption
                DEF CopiesAtMost, Unnoticed
      <4> QED BY <1>5, <1>9, <3>4, <4>1, <4>2 DEF d, g
    <3> QED BY <1>1, <2>6, <3>3, <3>4
  <2> QED BY <1>6, <2>7, <2>8
<1> QED BY <1>8, <1>9
-----------------------------------------------------------------------------
(* Steps that keep the ledger.                                             *)
Alike(d, e) ==
  SameEvents(d, e) /\ SameCounter(d, e) /\ SameRequest(d, e) /\ SameTransfer(d, e)

LEMMA AlikeLedger ==
  ASSUME NEW d, NEW e, Alike(d, e)
  PROVE  /\ Ledger(d) => Ledger(e)
         /\ Flagging(d) => Flagging(e)
         /\ Harmful(d) => Harmful(e)
<1>1. Request(d) = Request(e) /\ Uncounted(d) = Uncounted(e)
  BY DEF Alike, SameRequest, SameEvents, Request, Uncounted
<1>2. Requested(d) => Requested(e)
  BY <1>1 DEF Alike, SameRequest, SameEvents, Requested
<1>3. Held(d) => Held(e)
  BY DEF Alike, SameRequest, SameEvents, SameTransfer, Held
<1>4. Ordered(d) => Ordered(e)
  BY DEF Alike, SameEvents, SameCounter, Ordered
<1>5. Awaiting(d) => Awaiting(e)
  BY DEF Alike, SameEvents, SameCounter, SameRequest, Awaiting
<1>6. Triggered(d) => Triggered(e)
  BY DEF Alike, SameEvents, SameCounter, SameRequest, SameTransfer, Triggered
<1>7. Ended(d) => Ended(e)
  BY DEF Alike, SameEvents, SameCounter, SameTransfer, Ended
<1>8. Owed(d) => Owed(e)
  BY DEF Alike, SameEvents, SameCounter, SameRequest, SameTransfer, Owed
<1>9. Bounded(d) => Bounded(e)
  BY <1>1 DEF Alike, SameTransfer, Bounded
<1>10. Flagging(d) => Flagging(e)
  BY DEF Alike, SameEvents, SameCounter, SameRequest, SameTransfer, Flagging
<1>11. Harmful(d) => Harmful(e)
  BY DEF Alike, SameCounter, SameTransfer, Harmful
<1> QED BY <1>2, <1>3, <1>4, <1>5, <1>6, <1>7, <1>8, <1>9, <1>10, <1>11 DEF Ledger

LEMMA Carried ==
  ASSUME scans' = scans, call' = call, hist'.armed = hist.armed,
         Ledger(pde'), Flagging(pde')
  PROVE  Ledger(pde)' /\ Flagging(pde)'
<1>1. Requested(pde)'
  BY DEF Ledger, Requested, Request
<1>2. Held(pde)'
  BY DEF Ledger, Held, Holding
<1>3. Ordered(pde)' /\ Awaiting(pde)' /\ Triggered(pde)' /\ Flagging(pde)'
  BY DEF Ledger, Ordered, Awaiting, Triggered, Flagging
<1>4. Ended(pde)' /\ Owed(pde)' /\ Bounded(pde)'
  BY DEF Ledger, Ended, Owed, Bounded, Uncounted
<1> QED BY <1>1, <1>2, <1>3, <1>4 DEF Ledger

(* A step of an ioctl that only moves scans about.                         *)
LEMMA RestKept ==
  ASSUME Ledger(pde), SameEvents(pde, pde'), SameCounter(pde, pde'),
         SameRequest(pde, pde'), pde'.first = pde.first,
         scans' = scans, hist' = hist, call'.at # "armWait"
  PROVE  /\ Requested(pde)' /\ Ordered(pde)' /\ Awaiting(pde)' /\ Triggered(pde)'
         /\ Ended(pde)' /\ Uncounted(pde)' = Uncounted(pde)
<1>1. Requested(pde)'
  BY DEF Ledger, Requested, Request, SameRequest, SameEvents
<1>2. Ordered(pde)'
  BY DEF Ledger, Ordered, SameCounter, SameEvents
<1>3. Awaiting(pde)'
  BY DEF Ledger, Awaiting, SameEvents, SameCounter, SameRequest
<1>4. Triggered(pde)'
  BY DEF Ledger, Triggered, SameEvents, SameCounter, SameRequest
<1>5. Ended(pde)' /\ Uncounted(pde)' = Uncounted(pde)
  BY DEF Ledger, Ended, Uncounted, SameEvents, SameCounter
<1> QED BY <1>1, <1>2, <1>3, <1>4, <1>5

LEMMA WithArgFields ==
  ASSUME NEW d, IsPde(d)
  PROVE  Alike(d, WithArg(d)) /\ WithArg(d).stale = d.stale
<1> DEFINE buf == [p \in Cells |-> IF p < ArgScans THEN Arg ELSE d.buf[p]]
<1>1. WithArg(d) = [d EXCEPT !.buf = buf]
  BY DEF WithArg
<1> HIDE DEF buf
<1> QED BY <1>1, SMTT(30) DEF Alike, SameEvents, SameCounter, SameRequest, SameTransfer,
                              IsPde, Flags, Counts, Others

LEMMA InitDInv == Init => DInv
<1> SUFFICES ASSUME Init PROVE DInv
  OBVIOUS
<1>1. /\ pde = InitPde /\ scans = 0 /\ call = Idle
      /\ hist.armed = [source |-> "Immediate", stop |-> "ScanCount", pre |-> 0, post |-> 0]
  BY DEF Init
<1>2. /\ ~pde.acqActive /\ ~pde.configured /\ ~pde.dma /\ ~pde.wild /\ pde.die
      /\ ~pde.transferActive /\ pde.event = "TRIGGER" /\ ~pde.trigSw
      /\ pde.toMove = 0 /\ pde.sent = 0 /\ pde.inUser = 0 /\ pde.dropped = 0
      /\ pde.size = 1 /\ pde.current = 0 /\ pde.read = 0 /\ pde.lastPass = 0
  BY <1>1 DEF InitPde
<1>3. call.at = "none" /\ call.n = 0
  BY <1>1 DEF Idle
<1>4. Requested(pde) /\ Ordered(pde) /\ Awaiting(pde) /\ Triggered(pde) /\ Ended(pde)
      /\ Owed(pde) /\ Flagging(pde)
  BY <1>1, <1>2, <1>3 DEF Requested, Ordered, Awaiting, Triggered, Ended, Owed, Flagging
<1>5. Held(pde)
  BY <1>2, <1>3 DEF Held, Holding
<1>6. Bounded(pde)
  <2>1. Uncounted(pde) = 0
    BY <1>1, <1>2 DEF Uncounted
  <2> QED BY <1>2, <1>3, <2>1, SizesAssumption DEF Bounded
<1> QED BY <1>4, <1>5, <1>6, InitIInv DEF DInv, Ledger

(* The timer callback, and what it copies.                                 *)
LEMMA TimerData ==
  ASSUME DInv, AdcEventL, ~hist'.raced
  PROVE  /\ Ledger(pde)' /\ Flagging(pde)'
         /\ \/ pde'.stale = pde.stale
            \/ CopiesAtMost(pde', Unnoticed(FifoScans) - pde.lastPass)
<1>1. /\ IsPde(pde) /\ scans \in Nat /\ fault \in BOOLEAN /\ call \in Calls
      /\ hist \in [raced: BOOLEAN, arms: Nat,
                   armed: [source: Sources, stop: StopSources, pre: Nat, post: Nat]]
  BY DEF DInv, IInv, TypeOK, Calls
<1>2. /\ scans' = scans /\ call' = call /\ hist'.armed = hist.armed
      /\ ~hist.raced /\ ~Harmful(pde')
  <2>1. hist' = [hist EXCEPT !.raced = hist.raced \/ Harmful(pde')]
        /\ UNCHANGED <<scans, fault, call>>
    BY DEF AdcEventL
  <2>2. hist'.armed = hist.armed /\ hist'.raced = (hist.raced \/ Harmful(pde'))
    BY <1>1, <2>1
  <2> QED BY <2>1, <2>2
<1>3. Ledger(pde) /\ Flagging(pde)
  BY <1>2 DEF DInv
<1>4. CASE pde.die \/ ~pde.dma
  <2>1. pde' = [pde EXCEPT !.running = FALSE]
    BY <1>4 DEF AdcEventL
  <2>2. Alike(pde, pde') /\ pde'.stale = pde.stale
    BY <1>1, <2>1, SMTT(30) DEF Alike, SameEvents, SameCounter, SameRequest, SameTransfer,
                                IsPde, Flags, Counts, Others
  <2>3. Ledger(pde') /\ Flagging(pde')
    BY <1>3, <2>2, AlikeLedger
  <2> QED BY <1>2, <2>2, <2>3, Carried
<1>5. CASE ~pde.die /\ pde.dma
  <2>1. PICK lag \in 0..FifoScans :
          LET d == CheckEventsAndMoveData(pde, lag) IN pde' = [d EXCEPT !.running = d.dma]
    BY <1>5 DEF AdcEventL
  <2> DEFINE d == CheckEventsAndMoveData(pde, lag)
  <2>2. Running
    BY <1>1, <1>3, <1>5 DEF Running
  <2>3. lag \in Nat /\ lag <= FifoScans /\ FifoScans \in Nat
    BY SizesAssumption
  <2>4. IsPde(d)
    BY <1>1, <2>3, CallbackType
  <2>5. /\ Outcome(d)
        /\ \/ d.stale = pde.stale \/ Harmful(d)
           \/ CopiesAtMost(d, Unnoticed(lag) - pde.lastPass)
    BY <2>2, <2>3, CallbackLedger
  <2>6. pde' = [d EXCEPT !.running = d.dma]
    BY <2>1
  <2> HIDE DEF d
  <2>7. Alike(d, pde') /\ pde'.stale = d.stale
    BY <2>4, <2>6, SMTT(30) DEF Alike, SameEvents, SameCounter, SameRequest, SameTransfer,
                                IsPde, Flags, Counts, Others
  <2>8. ~Harmful(d)
    BY <1>2, <2>7, AlikeLedger
  <2>9. Ledger(pde') /\ Flagging(pde')
    BY <2>5, <2>7, <2>8, AlikeLedger DEF Outcome
  <2>10. CopiesAtMost(d, Unnoticed(lag) - pde.lastPass) =>
           CopiesAtMost(pde', Unnoticed(FifoScans) - pde.lastPass)
    <3>1. pde'.first = d.first /\ d.first \in Int
      BY <2>4, <2>7 DEF Alike, SameTransfer, IsPde, Counts
    <3>2. /\ call.n \in Int /\ Uncounted(pde) \in Int /\ pde.sent \in Int
          /\ pde.lastPass \in Int
      BY <1>1, <2>2, RunningFacts DEF IsPde, Counts
    <3>3. CASE pde.event = "TRIGGER"
      BY <1>1, <2>3, <3>1, <3>2, <3>3, SizesAssumption DEF CopiesAtMost, Unnoticed
    <3>4. CASE pde.event # "TRIGGER"
      BY <1>1, <2>3, <3>1, <3>2, <3>4, SizesAssumption DEF CopiesAtMost, Unnoticed
    <3> QED BY <3>3, <3>4
  <2> QED BY <1>2, <2>5, <2>7, <2>8, <2>9, <2>10, Carried
<1> QED BY <1>1, <1>4, <1>5 DEF IsPde, Flags

LEMMA ReadFields ==
  ASSUME scans \in Nat, NEW d, IsPde(d), NEW lag \in Nat
  PROVE  LET r == ReadAcqScanCounter(d, lag)
         IN  /\ SameTransfer(d, r) /\ SameRequest(d, r)
             /\ r.event = d.event
             /\ r.trigCount = d.trigCount /\ r.trigScan = d.trigScan /\ r.trigSw = d.trigSw
             /\ r.stopCount = d.stopCount /\ r.stopScan = d.stopScan /\ r.stopSw = d.stopSw
             /\ r.current = d.current /\ r.last = d.last /\ r.lastPass = d.lastPass
             /\ d.read <= r.read /\ (d.read <= scans => r.read <= scans)
             /\ \/ r.trigHw \/ d.event # "TRIGGER" \/ d.source # "Hardware"
                \/ r.read = d.read
             /\ d.trigHw => r.trigHw
<1> DEFINE waiting == d.event = "TRIGGER" /\ d.source = "Hardware" /\ ~d.trigHw
           read == AtLeast(d.read, scans - lag)
           hw == d.trigHw \/ waiting
           r == ReadAcqScanCounter(d, lag)
<1>1. /\ read \in Int /\ d.read <= read /\ (d.read <= scans => read <= scans)
      /\ hw \in BOOLEAN /\ d.read <= d.read
  BY DEF AtLeast, IsPde, Flags, Counts
<1>2. r = IF waiting /\ d.pacer # "on" THEN d ELSE [d EXCEPT !.read = read, !.trigHw = hw]
  BY DEF ReadAcqScanCounter
<1> HIDE DEF read, r
<1>3. CASE waiting /\ d.pacer # "on"
  BY <1>1, <1>2, <1>3 DEF SameTransfer, SameRequest, r
<1>4. CASE ~(waiting /\ d.pacer # "on")
  <2>1. r = [d EXCEPT !.read = read, !.trigHw = hw]
    BY <1>2, <1>4
  <2> HIDE DEF hw
  <2>2. /\ SameTransfer(d, r) /\ SameRequest(d, r)
        /\ r.event = d.event
        /\ r.trigCount = d.trigCount /\ r.trigScan = d.trigScan /\ r.trigSw = d.trigSw
        /\ r.stopCount = d.stopCount /\ r.stopScan = d.stopScan /\ r.stopSw = d.stopSw
        /\ r.current = d.current /\ r.last = d.last /\ r.lastPass = d.lastPass
        /\ r.read = read /\ r.trigHw = hw
    BY <1>1, <2>1, SMTT(30) DEF SameTransfer, SameRequest, IsPde, Flags, Counts, Others
  <2>3. /\ d.trigHw => hw
        /\ hw \/ d.event # "TRIGGER" \/ d.source # "Hardware"
    BY DEF hw
  <2> QED BY <1>1, <2>2, <2>3 DEF r
<1> QED BY <1>3, <1>4

(* A step of an ioctl that begins and ends at once.                        *)
LEMMA OneStepData ==
  ASSUME NEW d, OneStep(d), Ledger(d), call.at = "none"
  PROVE  Ledger(pde)' /\ Flagging(pde)'
<1>1. pde' = d /\ scans' = scans /\ call' = call /\ hist'.armed = hist.armed
  BY DEF OneStep
<1>2. Flagging(pde')
  BY <1>1 DEF Flagging
<1> QED BY <1>1, <1>2, Carried

(* adcConfigure, as far as the ledger goes: while an acquisition is active *)
(* only configured changes; otherwise the request and its counts.          *)
LEMMA ConfigureData ==
  ASSUME DInv, ~hist.raced, AdcConfigure
  PROVE  Ledger(pde)' /\ Flagging(pde)'
<1> DEFINE w == WithArg(pde)
<1>1. IsPde(pde) /\ Ledger(pde) /\ call.at = "none"
  BY DEF DInv, IInv, TypeOK, AdcConfigure, Begins
<1>2. IsPde(w) /\ Alike(pde, w)
  BY <1>1, WithArgType, WithArgFields
<1> HIDE DEF w
<1>3. /\ Ledger(w) /\ (w.acqActive <=> pde.acqActive)
  BY <1>1, <1>2, AlikeLedger DEF Alike, SameRequest
<1>4. ASSUME NEW e, SameEvents(w, e), SameCounter(w, e), SameTransfer(w, e),
             ~e.configured, e.acqActive = w.acqActive, e.dma = w.dma, e.pacer = w.pacer,
             \/ ~w.acqActive
             \/ e.source = w.source /\ e.stop = w.stop /\ e.pre = w.pre /\ e.post = w.post
      PROVE  Ledger(e)
  <2>1. Requested(e)
    BY <1>1, <1>3, <1>4 DEF Ledger, Requested, Request, SameEvents
  <2>2. Held(e)
    BY <1>1, <1>3, <1>4 DEF Ledger, Held, SameEvents, SameTransfer
  <2>3. Ordered(e) /\ Ended(e)
    BY <1>3, <1>4 DEF Ledger, Ordered, Ended, SameEvents, SameCounter, SameTransfer
  <2>4. Awaiting(e) /\ Triggered(e)
    BY <1>3, <1>4 DEF Ledger, Awaiting, Triggered, SameEvents, SameCounter, SameTransfer
  <2>5. Owed(e) /\ Bounded(e)
    BY <1>3, <1>4 DEF Ledger, Owed, Bounded, Uncounted, SameEvents, SameCounter, SameTransfer
  <2> QED BY <2>1, <2>2, <2>3, <2>4, <2>5 DEF Ledger
<1>5. CASE OneStep([w EXCEPT !.configured = FALSE])
  <2> DEFINE e == [w EXCEPT !.configured = FALSE]
  <2>1. /\ SameEvents(w, e) /\ SameCounter(w, e) /\ SameTransfer(w, e)
        /\ ~e.configured /\ e.acqActive = w.acqActive /\ e.dma = w.dma /\ e.pacer = w.pacer
        /\ e.source = w.source /\ e.stop = w.stop /\ e.pre = w.pre /\ e.post = w.post
    BY <1>2, SMTT(30) DEF SameEvents, SameCounter, SameTransfer, IsPde, Flags, Counts, Others
  <2> HIDE DEF e
  <2>2. Ledger(e)
    BY <1>4, <2>1
  <2>3. OneStep(e)
    BY <1>5 DEF e
  <2> QED BY <1>1, <2>2, <2>3, OneStepData
<1>6. ASSUME ~pde.acqActive, NEW c \in Configs,
             OneStep([w EXCEPT !.configured = FALSE, !.source = c.source, !.stop = c.stop])
      PROVE  Ledger(pde)' /\ Flagging(pde)'
  <2> DEFINE e == [w EXCEPT !.configured = FALSE, !.source = c.source, !.stop = c.stop]
  <2>1. /\ SameEvents(w, e) /\ SameCounter(w, e) /\ SameTransfer(w, e)
        /\ ~e.configured /\ e.acqActive = w.acqActive /\ e.dma = w.dma /\ e.pacer = w.pacer
    BY <1>2, SMTT(30) DEF SameEvents, SameCounter, SameTransfer, IsPde, Flags, Counts, Others
  <2>2. OneStep(e)
    BY <1>6
  <2> HIDE DEF e
  <2>3. Ledger(e)
    BY <1>3, <1>4, <1>6, <2>1
  <2> QED BY <1>1, <2>2, <2>3, OneStepData
<1>7. ASSUME ~pde.acqActive, NEW c \in Configs,
             OneStep([w EXCEPT !.configured = TRUE, !.source = c.source, !.stop = c.stop,
                        !.pre = c.pre, !.post = c.post,
                        !.trigCount = c.pre, !.stopCount = c.post])
      PROVE  Ledger(pde)' /\ Flagging(pde)'
  <2> DEFINE e == [w EXCEPT !.configured = TRUE, !.source = c.source, !.stop = c.stop,
                     !.pre = c.pre, !.post = c.post,
                     !.trigCount = c.pre, !.stopCount = c.post]
  <2>1. /\ e.source = c.source /\ e.stop = c.stop /\ e.pre = c.pre /\ e.post = c.post
        /\ e.acqActive = w.acqActive /\ e.dma = w.dma
        /\ e.event = w.event /\ e.trigSw = w.trigSw
    BY <1>2, SMTT(30) DEF IsPde, Flags, Counts, Others
  <2>2. SameCounter(w, e) /\ SameTransfer(w, e)
    BY <1>2, SMTT(30) DEF SameCounter, SameTransfer, IsPde, Flags, Counts, Others
  <2>3. OneStep(e)
    BY <1>7
  <2> HIDE DEF e
  <2>4. Request(e) = c
    BY <2>1, RequestsAssumption DEF Request
  <2>5. ~e.acqActive
    BY <1>3, <1>7, <2>1
  <2>6. Requested(e)
    BY <1>1, <1>3, <2>1, <2>4, <2>5 DEF Ledger, Requested
  <2>7. Held(e)
    BY <1>1, <1>3, <2>1, <2>2, <2>5 DEF Ledger, Held, SameTransfer
  <2>8. Ordered(e) /\ Ended(e) /\ Awaiting(e) /\ Triggered(e)
    BY <1>3, <2>1, <2>2, <2>5
       DEF Ledger, Ordered, Ended, Awaiting, Triggered, SameCounter, SameTransfer
  <2>9. Owed(e) /\ Bounded(e)
    BY <1>3, <2>1, <2>2, <2>5 DEF Ledger, Owed, Bounded, Uncounted, SameCounter, SameTransfer
  <2>10. Ledger(e)
    BY <2>6, <2>7, <2>8, <2>9 DEF Ledger
  <2> QED BY <1>1, <2>3, <2>10, OneStepData
<1> QED BY <1>5, <1>6, <1>7 DEF AdcConfigure, w

(* The record that adcDisarm leaves, between two ioctls.                   *)
LEMMA DisarmedLedger ==
  ASSUME NEW d, IsPde(d), Ledger(d), hist.armed.pre \in Nat, call.at = "none"
  PROVE  Ledger(AdcDisarm(d))
<1> DEFINE e == AdcDisarm(d)
<1>1. /\ SameEvents(d, e) /\ SameCounter(d, e) /\ ~e.acqActive /\ ~e.dma
      /\ e.source = d.source /\ e.stop = d.stop /\ e.pre = d.pre
      /\ e.post = d.post /\ e.configured = d.configured
      /\ e.transferActive = d.transferActive /\ e.inUser = d.inUser
      /\ e.size = d.size /\ e.cyclic = d.cyclic /\ e.sent = d.sent
      /\ e.first = d.first /\ e.wild = d.wild /\ e.die = d.die /\ e.userOpen = d.userOpen
      /\ e.toMove = 0 /\ e.dropped = d.dropped + d.toMove
  BY DisarmFields, DisarmType DEF Quiet
<1> HIDE DEF e
<1>2. /\ d.toMove \in Int /\ d.dropped \in Int /\ d.toMove >= 0 /\ d.dropped >= 0
      /\ d.sent \in Int /\ d.first \in Int
      /\ call.n = 0 /\ ~Holding
  BY DEF Ledger, Held, Holding, IsPde, Counts
<1>3. Requested(e)
  BY <1>1 DEF Ledger, Requested, Request
<1>4. Held(e)
  BY <1>1, <1>2 DEF Ledger, Held, SameEvents
<1>5. Ordered(e) /\ Awaiting(e) /\ Triggered(e) /\ Ended(e)
  BY <1>1 DEF Ledger, Ordered, Awaiting, Triggered, Ended, SameEvents, SameCounter
<1>6. Owed(e)
  BY <1>1, <1>2 DEF Ledger, Owed, SameEvents, SameCounter
<1>7. Bounded(e)
  <2>1. Uncounted(e) = Uncounted(d)
    BY <1>1 DEF Uncounted, SameEvents
  <2>2. d.toMove + call.n <= (IF d.die THEN 2 * RingScans ELSE RingScans) + Uncounted(d)
    BY DEF Ledger, Bounded
  <2>3. e.toMove + call.n <= d.toMove + call.n
    BY <1>1, <1>2
  <2>4. Uncounted(d) \in Nat
    BY DEF Uncounted
  <2> QED BY <1>1, <1>2, <2>1, <2>2, <2>3, <2>4, SizesAssumption DEF Bounded
<1> QED BY <1>3, <1>4, <1>5, <1>6, <1>7 DEF Ledger, e

LEMMA StoppedLedger ==
  ASSUME NEW d, IsPde(d), Ledger(d), hist.armed.pre \in Nat, call \in Calls,
         call.at # "startAdvance"
  PROVE  Ledger(AdcStop(d))
<1> DEFINE e == AdcStop(d)
<1>1. /\ SameEvents(d, e) /\ SameCounter(d, e) /\ SameRequest(d, e)
      /\ e.size = d.size /\ e.cyclic = d.cyclic
      /\ e.dropped = d.dropped /\ e.first = d.first
      /\ e.wild = d.wild
      /\ e.inUser = d.inUser /\ e.sent = d.sent /\ e.toMove = d.toMove
      /\ ~e.transferActive /\ e.die
  BY StopFields
<1> HIDE DEF e
<1>2. Uncounted(e) = Uncounted(d) /\ Uncounted(d) \in Nat
  BY <1>1 DEF Uncounted, SameEvents
<1>3. Requested(e)
  BY <1>1 DEF Ledger, Requested, Request, SameEvents, SameRequest
<1>4. Held(e)
  BY <1>1 DEF Ledger, Held, SameEvents, SameRequest
<1>5. Ordered(e) /\ Awaiting(e) /\ Triggered(e) /\ Ended(e) /\ Owed(e)
  BY <1>1 DEF Ledger, Ordered, Awaiting, Triggered, Ended, Owed,
              SameEvents, SameCounter, SameRequest
<1>6. Bounded(e)
  <2>1. d.toMove + call.n <= (IF d.die THEN 2 * RingScans ELSE RingScans) + Uncounted(d)
    BY DEF Ledger, Bounded
  <2>2. d.toMove + call.n <= 2 * RingScans + Uncounted(d)
    <3>1. d.toMove \in Int /\ call.n \in Int
      BY DEF Calls, IsPde, Counts
    <3>2. CASE d.die
      BY <2>1, <3>2
    <3>3. CASE ~d.die
      <4>1. d.toMove + call.n <= RingScans + Uncounted(d)
        BY <2>1, <3>3
      <4> QED BY <1>2, <3>1, <4>1, SizesAssumption
    <3> QED BY <3>2, <3>3 DEF IsPde, Flags
  <2> QED BY <1>1, <1>2, <2>2 DEF Bounded
<1> QED BY <1>3, <1>4, <1>5, <1>6 DEF Ledger, e

LEMMA ProgramData ==
  ASSUME DInv, ~hist.raced, Program
  PROVE  Ledger(pde)' /\ Flagging(pde)'
<1> DEFINE w == WithArg(pde)
<1>1. /\ IsPde(pde) /\ Ledger(pde) /\ call.at = "none" /\ scans \in Nat /\ call \in Calls
      /\ hist.armed.pre \in Nat
  BY DEF DInv, IInv, TypeOK, Program, AdcConfigure, AdcArmBegin, AdcDisarmCall, AdcStopCall,
         AdcGetStatus, AdcStartBegin, AdcSoftTrigScan, Begins, Calls
<1>2. IsPde(w) /\ Alike(pde, w) /\ Ledger(w)
  BY <1>1, WithArgType, WithArgFields, AlikeLedger
<1>3. call.n = 0 /\ ~Holding
  BY <1>1 DEF Ledger, Held, Holding
<1> HIDE DEF w
<1>4. CASE AdcConfigure
  BY <1>4, ConfigureData
<1>5. CASE AdcArmBegin
  <2>1. CASE OneStep(w)
    BY <1>1, <1>2, <2>1, OneStepData
  <2>2. CASE ~OneStep(w)
    <3> DEFINE e == AdcDisarm(w)
    <3>1. /\ pde' = [e EXCEPT !.die = e.die \/ pde.running]
          /\ call' = [Idle EXCEPT !.at = "armWait"] /\ UNCHANGED <<scans, fault, hist>>
          /\ ~pde.acqActive /\ pde.configured
      BY <1>5, <2>2 DEF AdcArmBegin, w
    <3>2. IsPde(e) /\ Ledger(e) /\ Quiet(e) /\ e.configured = w.configured /\ e.toMove = 0
      BY <1>1, <1>2, DisarmType, DisarmedLedger, DisarmFields
    <3>3. call'.at = "armWait" /\ call'.n = 0
      BY <3>1 DEF Idle
    <3>4. pde.running \in BOOLEAN /\ e.die \in BOOLEAN
      BY <1>1, <3>2 DEF IsPde, Flags
    <3> HIDE DEF e
    <3>5. /\ SameEvents(e, pde') /\ SameCounter(e, pde') /\ SameRequest(e, pde')
          /\ pde'.transferActive = e.transferActive /\ pde'.toMove = e.toMove
          /\ pde'.inUser = e.inUser /\ pde'.size = e.size /\ pde'.cyclic = e.cyclic
          /\ pde'.sent = e.sent /\ pde'.dropped = e.dropped /\ pde'.first = e.first
          /\ pde'.wild = e.wild /\ pde'.userOpen = e.userOpen
      BY <3>1, <3>2, <3>4, SMTT(30) DEF SameEvents, SameCounter, SameRequest, IsPde, Flags, Counts, Others
    <3>6. e.configured /\ ~e.acqActive
      BY <1>2, <3>1, <3>2 DEF Alike, SameRequest, Quiet
    <3>7. Requested(pde)'
      BY <3>1, <3>2, <3>5, <3>6 DEF Ledger, Requested, Request, SameEvents, SameRequest
    <3>8. Held(pde)'
      BY <1>3, <3>2, <3>3, <3>5, <3>6 DEF Ledger, Held, Holding, SameEvents, SameRequest
    <3>9. Ordered(pde)' /\ Awaiting(pde)' /\ Triggered(pde)' /\ Ended(pde)'
      BY <3>1, <3>2, <3>5, <3>6 DEF Ledger, Ordered, Awaiting, Triggered, Ended,
                                    SameEvents, SameCounter, SameRequest
    <3>10. Owed(pde)' /\ Flagging(pde)'
      BY <1>3, <3>2, <3>3, <3>5, <3>6 DEF Ledger, Owed, Flagging, SameEvents, SameCounter, SameRequest
    <3>11. Bounded(pde)'
      <4>1. Uncounted(pde)' \in Nat
        BY <1>1, <3>1 DEF Uncounted
      <4> QED BY <3>2, <3>3, <3>5, <4>1, SizesAssumption DEF Bounded
    <3> QED BY <3>7, <3>8, <3>9, <3>10, <3>11 DEF Ledger
  <2> QED BY <2>1, <2>2
<1>6. CASE AdcDisarmCall
  BY <1>1, <1>2, <1>6, DisarmedLedger, OneStepData DEF AdcDisarmCall, w
<1>7. CASE AdcStopCall
  BY <1>1, <1>2, <1>7, StoppedLedger, OneStepData DEF AdcStopCall, w
<1>8. CASE AdcGetStatus
  <2> DEFINE e == [w EXCEPT !.error = "None"]
  <2>1. Alike(w, e)
    BY <1>2, SMTT(30) DEF Alike, SameEvents, SameCounter, SameRequest, SameTransfer,
                          IsPde, Flags, Counts, Others
  <2>2. OneStep(e)
    BY <1>8 DEF AdcGetStatus, w
  <2> HIDE DEF e
  <2> QED BY <1>1, <1>2, <2>1, <2>2, AlikeLedger, OneStepData
<1>9. CASE AdcStartBegin
  <2>1. CASE OneStep(w)
    BY <1>1, <1>2, <2>1, OneStepData
  <2>2. CASE ~OneStep(w)
    <3>1. /\ pde' = [w EXCEPT !.userOpen = TRUE] /\ ~pde.transferActive /\ pde.configured
          /\ call' = [Idle EXCEPT !.at = "startOpen"] /\ UNCHANGED <<scans, fault, hist>>
      BY <1>9, <2>2 DEF AdcStartBegin, w
    <3>2. call'.at = "startOpen" /\ call'.n = 0
      BY <3>1 DEF Idle
    <3>3. /\ SameEvents(w, pde') /\ SameCounter(w, pde') /\ SameRequest(w, pde')
          /\ pde'.toMove = w.toMove /\ pde'.inUser = w.inUser /\ pde'.size = w.size
          /\ pde'.sent = w.sent /\ pde'.dropped = w.dropped /\ pde'.first = w.first
          /\ pde'.wild = w.wild /\ pde'.die = w.die /\ pde'.cyclic = w.cyclic
          /\ pde'.transferActive = w.transferActive /\ pde'.userOpen
      BY <1>2, <3>1, SMTT(30) DEF SameEvents, SameCounter, SameRequest, IsPde, Flags, Counts, Others
    <3>4. /\ SameEvents(pde, pde') /\ SameCounter(pde, pde') /\ SameRequest(pde, pde')
          /\ pde'.first = pde.first
      BY <1>2, <3>3 DEF Alike, SameEvents, SameCounter, SameRequest, SameTransfer
    <3>9. ~pde'.transferActive /\ pde'.configured
      BY <1>2, <3>1, <3>3 DEF Alike, SameRequest, SameTransfer
    <3>5. /\ Requested(pde)' /\ Ordered(pde)' /\ Awaiting(pde)' /\ Triggered(pde)'
          /\ Ended(pde)' /\ Uncounted(pde)' = Uncounted(pde)
      BY <1>1, <3>1, <3>2, <3>4, RestKept
    <3>6. Held(pde)'
      BY <1>2, <1>3, <3>2, <3>3, <3>9 DEF Ledger, Held, Holding, SameEvents, SameRequest
    <3>7. Owed(pde)' /\ Flagging(pde)'
      BY <1>2, <1>3, <3>2, <3>3 DEF Ledger, Owed, Flagging, SameEvents, SameCounter, SameRequest
    <3>8. Bounded(pde)'
      BY <1>2, <1>3, <3>1, <3>2, <3>3 DEF Ledger, Bounded, Uncounted, SameEvents
    <3> QED BY <3>5, <3>6, <3>7, <3>8 DEF Ledger
  <2> QED BY <2>1, <2>2
<1>10. CASE AdcSoftTrigScan
  <2>1. CASE OneStep(w)
    BY <1>1, <1>2, <2>1, OneStepData
  <2>2. CASE ~OneStep(w)
    <3>1. PICK lag \in 0..FifoScans :
            LET r == ReadAcqScanCounter(w, lag)
            IN  pde' = [r EXCEPT
                     !.trigScan = IF r.event = "TRIGGER" THEN r.read ELSE @,
                     !.stopScan = IF r.event = "STOP" THEN r.read ELSE @]
      BY <1>10, <2>2 DEF AdcSoftTrigScan, w
    <3>2. /\ call' = [Idle EXCEPT !.at = "trigFlag", !.event = pde.event]
          /\ UNCHANGED <<scans, fault, hist>> /\ CountOf(pde) = 0
      BY <1>10, <2>2 DEF AdcSoftTrigScan, w
    <3> DEFINE r == ReadAcqScanCounter(w, lag)
    <3>3. IsPde(r)
      BY <1>1, <1>2, ReadType
    <3>4. /\ SameTransfer(w, r) /\ SameRequest(w, r)
          /\ r.event = w.event
          /\ r.trigCount = w.trigCount /\ r.trigScan = w.trigScan /\ r.trigSw = w.trigSw
          /\ r.stopCount = w.stopCount /\ r.stopScan = w.stopScan /\ r.stopSw = w.stopSw
          /\ r.current = w.current /\ r.last = w.last /\ r.lastPass = w.lastPass
          /\ w.read <= r.read /\ (w.read <= scans => r.read <= scans)
          /\ \/ r.trigHw \/ w.event # "TRIGGER" \/ w.source # "Hardware"
             \/ r.read = w.read
          /\ w.trigHw => r.trigHw
      BY <1>1, <1>2, ReadFields
    <3>5. pde' = [r EXCEPT !.trigScan = IF r.event = "TRIGGER" THEN r.read ELSE r.trigScan,
                           !.stopScan = IF r.event = "STOP" THEN r.read ELSE r.stopScan]
      BY <3>1
    <3>6. call'.at = "trigFlag" /\ call'.n = 0 /\ call'.event = pde.event
      BY <3>2 DEF Idle
    <3> HIDE DEF r
    <3>7. /\ SameTransfer(r, pde') /\ SameRequest(r, pde') /\ pde'.event = r.event
          /\ pde'.trigCount = r.trigCount /\ pde'.trigSw = r.trigSw /\ pde'.trigHw = r.trigHw
          /\ pde'.stopCount = r.stopCount /\ pde'.stopSw = r.stopSw
          /\ pde'.current = r.current /\ pde'.last = r.last /\ pde'.lastPass = r.lastPass
          /\ pde'.read = r.read
          /\ pde'.trigScan = (IF r.event = "TRIGGER" THEN r.read ELSE r.trigScan)
          /\ pde'.stopScan = (IF r.event = "STOP" THEN r.read ELSE r.stopScan)
      BY <3>3, <3>5, SMTT(30) DEF SameTransfer, SameRequest, IsPde, Flags, Counts, Others
    <3>8. /\ SameTransfer(pde, pde') /\ SameRequest(pde, pde')
          /\ pde'.event = pde.event /\ pde'.trigCount = pde.trigCount
          /\ pde'.trigSw = pde.trigSw /\ (pde.trigHw => pde'.trigHw)
          /\ pde'.stopCount = pde.stopCount /\ pde'.stopSw = pde.stopSw
          /\ pde'.current = pde.current /\ pde'.lastPass = pde.lastPass
          /\ pde.read <= pde'.read /\ (pde.read <= scans => pde'.read <= scans)
          /\ pde'.trigScan = (IF pde.event = "TRIGGER" THEN pde'.read ELSE pde.trigScan)
          /\ pde'.stopScan = (IF pde.event = "STOP" THEN pde'.read ELSE pde.stopScan)
          /\ \/ pde'.trigHw \/ pde.event # "TRIGGER" \/ pde.source # "Hardware"
             \/ pde'.read = pde.read
      BY <1>2, <3>4, <3>7 DEF Alike, SameTransfer, SameRequest, SameEvents, SameCounter
    <3>9. /\ pde.read \in Int /\ pde'.read \in Int /\ pde.current \in Int /\ pde.pre \in Nat
          /\ pde.trigScan \in Int
      BY <1>1, <3>3, <3>7 DEF IsPde, Counts
    <3>10. Requested(pde)'
      BY <1>1, <3>2, <3>6, <3>8 DEF Ledger, Requested, Request, SameRequest
    <3>11. Held(pde)'
      BY <1>1, <1>3, <3>6, <3>8 DEF Ledger, Held, Holding, SameTransfer, SameRequest
    <3>12. Ordered(pde)'
      BY <1>1, <3>2, <3>8, <3>9 DEF Ledger, Ordered
    <3>13. pde.acqActive /\ pde.event = "TRIGGER" =>
             pde.pre <= pde'.read /\ pde.current <= pde'.read
      <4>1. SUFFICES ASSUME pde.acqActive, pde.event = "TRIGGER"
                     PROVE  pde.pre <= pde'.read /\ pde.current <= pde'.read
        OBVIOUS
      <4>2. AtLeast(0, pde.pre - pde.current) = 0
        BY <1>1, <3>2, <4>1 DEF Ledger, Awaiting, CountOf
      <4>3. pde.current <= pde.read
        BY <1>1, <4>1 DEF Ledger, Ordered
      <4> QED BY <3>8, <3>9, <4>2, <4>3 DEF AtLeast
    <3>14. pde.event # "POSTSTOP" => pde.current <= pde'.read
      BY <1>1, <3>8, <3>9 DEF Ledger, Ordered
    <3>15. Awaiting(pde)'
      BY <1>1, <3>2, <3>8, <3>9, <3>13 DEF Ledger, Awaiting, SameRequest
    <3>16. Triggered(pde)'
      BY <1>1, <3>2, <3>8, <3>9, <3>14 DEF Ledger, Triggered, SameRequest, SameTransfer
    <3>17. Ended(pde)' /\ Owed(pde)'
      BY <1>1, <1>3, <3>2, <3>6, <3>8 DEF Ledger, Ended, Owed, SameRequest, SameTransfer
    <3>18. Bounded(pde)'
      BY <1>1, <1>3, <3>2, <3>6, <3>8 DEF Ledger, Bounded, Uncounted, SameTransfer
    <3>19. Flagging(pde)'
      <4>1. pde.event = "STOP" => pde.stopCount = 0
        BY <3>2 DEF CountOf
      <4> QED BY <3>6, <3>8, <3>9, <3>13, <3>14, <4>1 DEF Flagging, SameRequest
    <3> QED BY <3>10, <3>11, <3>12, <3>15, <3>16, <3>17, <3>18, <3>19 DEF Ledger
  <2> QED BY <2>1, <2>2
<1> QED BY <1>4, <1>5, <1>6, <1>7, <1>8, <1>9, <1>10 DEF Program

LEMMA RearmedFields ==
  ASSUME NEW d, IsPde(d)
  PROVE  LET e == Rearmed(d)
         IN  /\ SameRequest(d, e) /\ e.event = "TRIGGER"
             /\ e.trigCount = d.pre /\ e.stopCount = d.post
             /\ ~e.trigSw /\ ~e.trigHw /\ ~e.stopSw
             /\ e.read = 0 /\ e.current = 0 /\ e.lastPass = 0
             /\ e.toMove = 0 /\ e.inUser = 0 /\ e.sent = 0 /\ e.dropped = 0
             /\ e.wild = d.wild /\ e.size = d.size /\ e.cyclic = d.cyclic
             /\ e.transferActive = d.transferActive /\ e.userOpen = d.userOpen
<1> DEFINE s == d.pre % RingScans
<1>1. Rearmed(d) =
        [d EXCEPT !.event = "TRIGGER", !.trigCount = d.pre, !.stopCount = d.post,
            !.trigSw = FALSE, !.trigHw = FALSE, !.stopSw = FALSE,
            !.read = 0, !.current = 0, !.last = 0, !.lastPass = 0,
            !.toMove = 0, !.inUser = 0, !.head = 0, !.search = s,
            !.sent = 0, !.dropped = 0, !.stale = FALSE]
  BY DEF Rearmed
<1> HIDE DEF s
<1>2. SameRequest(d, Rearmed(d))
  BY <1>1, SMTT(30) DEF SameRequest, IsPde, Flags, Counts, Others
<1> QED BY <1>1, <1>2, SMTT(30) DEF IsPde, Flags, Counts, Others

(* adcStart's copyNewScans, up to the moves of the heads.                  *)
LEMMA StartCopyData ==
  ASSUME DInv, ~hist.raced, AdcStartCopy
  PROVE  Ledger(pde)' /\ Flagging(pde)'
<1> DEFINE n == call.n
           m == Room(pde, n)
<1>1. /\ IsPde(pde) /\ Ledger(pde) /\ call.at = "startCopy" /\ scans \in Nat
      /\ call \in Calls /\ UNCHANGED <<scans, fault, hist>>
  BY DEF DInv, IInv, TypeOK, AdcStartCopy, Calls
<1>2. /\ n \in Nat /\ Holding /\ pde.event # "TRIGGER" /\ ~pde.wild
      /\ pde.toMove >= 0 /\ pde.sent >= 0 /\ pde.inUser >= 0 /\ pde.dropped >= 0
      /\ pde.acqActive => pde.dropped = 0
      /\ pde.transferActive => pde.toMove = 0 /\ pde.userOpen
      /\ ~pde.cyclic => pde.inUser <= pde.size
  BY <1>1 DEF Ledger, Held, Holding, Calls
<1>3. /\ pde.toMove \in Int /\ pde.inUser \in Int /\ pde.size \in Int /\ pde.sent \in Int
      /\ pde.first \in Int /\ pde.dropped \in Int /\ pde.current \in Int
  BY <1>1 DEF IsPde, Counts
<1>4. /\ m \in Nat /\ m <= n
      /\ Fills(pde, n) => ~pde.cyclic /\ pde.inUser + m = pde.size
      /\ ~Fills(pde, n) => m = n
      /\ ~pde.cyclic => pde.inUser + m <= pde.size
  BY <1>2, <1>3 DEF Room, Fills
<1>5. CASE ~pde.transferActive
  <2>1. /\ pde' = [pde EXCEPT !.toMove = pde.toMove + n]
        /\ call' = [call EXCEPT !.at = "startEnd", !.n = 0]
    BY <1>5 DEF AdcStartCopy
  <2>2. call'.at = "startEnd" /\ call'.n = 0
    BY <1>1, <2>1 DEF Calls
  <2>3. /\ SameEvents(pde, pde') /\ SameCounter(pde, pde') /\ SameRequest(pde, pde')
        /\ pde'.toMove = pde.toMove + n /\ ~pde'.transferActive
        /\ pde'.sent = pde.sent /\ pde'.dropped = pde.dropped /\ pde'.first = pde.first
        /\ pde'.inUser = pde.inUser /\ pde'.size = pde.size /\ pde'.cyclic = pde.cyclic
        /\ pde'.wild = pde.wild /\ pde'.die = pde.die
    BY <1>1, <1>5, <2>1, SMTT(30)
       DEF SameEvents, SameCounter, SameRequest, IsPde, Flags, Counts, Others
  <2>4. /\ Requested(pde)' /\ Ordered(pde)' /\ Awaiting(pde)' /\ Triggered(pde)'
        /\ Ended(pde)' /\ Uncounted(pde)' = Uncounted(pde)
    BY <1>1, <2>2, <2>3, RestKept
  <2>5. Held(pde)'
    BY <1>2, <1>3, <2>2, <2>3 DEF Held, Holding, SameEvents, SameRequest
  <2>6. Owed(pde)' /\ Flagging(pde)'
    BY <1>1, <1>2, <1>3, <2>2, <2>3
       DEF Ledger, Owed, Flagging, SameEvents, SameCounter, SameRequest
  <2>7. Bounded(pde)'
    <3>1. pde'.toMove + call'.n = pde.toMove + call.n
      BY <1>2, <1>3, <2>2, <2>3
    <3> QED BY <1>1, <2>3, <2>4, <3>1 DEF Ledger, Bounded
  <2> QED BY <2>4, <2>5, <2>6, <2>7 DEF Ledger
<1>6. CASE pde.transferActive
  <2> DEFINE kept == IF Fills(pde, n) THEN [pde EXCEPT !.toMove = n - m] ELSE pde
  <2>1. /\ pde' = MemCopy(kept, m)
        /\ call' = [call EXCEPT !.at = "startAdvance", !.n = m, !.full = Fills(pde, n)]
    BY <1>2, <1>4, <1>6 DEF AdcStartCopy, OutOfBounds
  <2> HIDE DEF n, m
  <2>2. call'.at = "startAdvance" /\ call'.n = m /\ (call'.full <=> Fills(pde, n))
    BY <1>1, <2>1 DEF Calls
  <2>3. /\ IsPde(kept)
        /\ SameEvents(pde, kept) /\ SameCounter(pde, kept) /\ SameRequest(pde, kept)
        /\ kept.transferActive /\ kept.toMove = (IF Fills(pde, n) THEN n - m ELSE 0)
        /\ kept.sent = pde.sent /\ kept.dropped = pde.dropped /\ kept.first = pde.first
        /\ kept.inUser = pde.inUser /\ kept.size = pde.size /\ kept.cyclic = pde.cyclic
        /\ kept.wild = pde.wild /\ kept.die = pde.die /\ kept.userOpen
    <3>1. n - m \in Int
      BY <1>2, <1>4
    <3> QED BY <1>1, <1>2, <1>6, <3>1, SMTT(30)
            DEF SameEvents, SameCounter, SameRequest, IsPde, Flags, Counts, Others
  <2> HIDE DEF kept
  <2>4. /\ SameEvents(kept, pde') /\ SameCounter(kept, pde') /\ SameRequest(kept, pde')
        /\ SameTransfer(kept, pde')
    BY <1>4, <2>1, <2>3, MemCopyFields
  <2>5. /\ SameEvents(pde, pde') /\ SameCounter(pde, pde') /\ SameRequest(pde, pde')
        /\ pde'.transferActive /\ pde'.toMove = (IF Fills(pde, n) THEN n - m ELSE 0)
        /\ pde'.sent = pde.sent /\ pde'.dropped = pde.dropped /\ pde'.first = pde.first
        /\ pde'.inUser = pde.inUser /\ pde'.size = pde.size /\ pde'.cyclic = pde.cyclic
        /\ pde'.wild = pde.wild /\ pde'.die = pde.die /\ pde'.userOpen
    BY <2>3, <2>4 DEF SameEvents, SameCounter, SameRequest, SameTransfer
  <2>6. /\ Requested(pde)' /\ Ordered(pde)' /\ Awaiting(pde)' /\ Triggered(pde)'
        /\ Ended(pde)' /\ Uncounted(pde)' = Uncounted(pde)
    BY <1>1, <2>2, <2>5, RestKept
  <2>7. pde'.toMove \in Nat /\ pde'.toMove + call'.n = n /\ (pde'.toMove # 0 => call'.full)
    BY <1>2, <1>4, <2>2, <2>5
  <2>8. Held(pde)'
    BY <1>2, <1>3, <1>4, <2>2, <2>5, <2>7 DEF Held, Holding, SameEvents, SameRequest
  <2>9. Owed(pde)' /\ Flagging(pde)'
    <3>1. pde.first + pde.sent + pde.dropped + n = pde.first + pde.sent + pde.toMove + pde.dropped + call.n
      BY <1>2, <1>3, <1>6 DEF n
    <3>2. pde'.first + pde'.sent + pde'.toMove + pde'.dropped + call'.n
            = pde.first + pde.sent + pde.dropped + n
      BY <1>2, <1>3, <1>4, <2>2, <2>5, <2>7
    <3> QED BY <1>1, <2>2, <2>5, <3>1, <3>2
            DEF Ledger, Owed, Flagging, SameEvents, SameCounter, SameRequest
  <2>10. Bounded(pde)'
    <3>1. pde'.toMove + call'.n = pde.toMove + call.n
      BY <1>2, <1>3, <1>6, <2>7 DEF n
    <3> QED BY <1>1, <2>5, <2>6, <3>1 DEF Ledger, Bounded
  <2> QED BY <2>6, <2>8, <2>9, <2>10 DEF Ledger
<1> QED BY <1>5, <1>6

LEMMA ArmData ==
  ASSUME DInv, ~hist.raced, AdcArmTimeout \/ AdcArmInitFailure \/ AdcArmDone
  PROVE  Ledger(pde)' /\ Flagging(pde)'
<1>1. /\ IsPde(pde) /\ Ledger(pde) /\ call.at = "armWait"
      /\ hist \in [raced: BOOLEAN, arms: Nat,
                   armed: [source: Sources, stop: StopSources, pre: Nat, post: Nat]]
      /\ call'.at = "none" /\ call'.n = 0
  BY DEF DInv, IInv, TypeOK, AdcArmTimeout, AdcArmInitFailure, AdcArmDone, Idle
<1>2. /\ call.n = 0 /\ ~Holding /\ ~pde.wild
      /\ pde.configured /\ ~pde.acqActive /\ Request(pde) \in Configs
      /\ hist.armed.pre \in Nat
  BY <1>1 DEF Ledger, Held, Holding, Requested
<1>3. Flagging(pde)'
  BY <1>1 DEF Flagging
<1>4. CASE AdcArmTimeout
  <2>1. pde' = pde /\ scans' = scans /\ hist' = hist
    BY <1>4 DEF AdcArmTimeout
  <2>2. /\ Requested(pde)' /\ Ordered(pde)' /\ Awaiting(pde)' /\ Triggered(pde)'
        /\ Ended(pde)'
    BY <1>1, <2>1, RestKept DEF SameEvents, SameCounter, SameRequest
  <2>3. Held(pde)'
    BY <1>1, <1>2, <2>1 DEF Ledger, Held, Holding
  <2>4. Owed(pde)' /\ Bounded(pde)'
    BY <1>1, <1>2, <2>1 DEF Ledger, Owed, Bounded, Uncounted
  <2> QED BY <1>3, <2>2, <2>3, <2>4 DEF Ledger
<1> DEFINE r == Rearmed(pde)
<1>5. /\ IsPde(r)
      /\ SameRequest(pde, r) /\ r.event = "TRIGGER"
      /\ r.trigCount = pde.pre /\ r.stopCount = pde.post
      /\ ~r.trigSw /\ ~r.trigHw /\ ~r.stopSw
      /\ r.read = 0 /\ r.current = 0 /\ r.lastPass = 0
      /\ r.toMove = 0 /\ r.inUser = 0 /\ r.sent = 0 /\ r.dropped = 0
      /\ r.wild = pde.wild /\ r.size \in 1..InBufScans
      /\ r.transferActive = pde.transferActive /\ r.userOpen = pde.userOpen
  <2>1. IsPde(r)
    BY <1>1, RearmedType
  <2>2. r.size \in 1..InBufScans
    BY <2>1 DEF IsPde
  <2> QED BY <1>1, <2>1, <2>2, RearmedFields
<1> HIDE DEF r
<1>6. CASE AdcArmInitFailure
  <2>1. pde' = AdcDisarm(r) /\ scans' = 0 /\ hist' = hist
    BY <1>6 DEF AdcArmInitFailure, r
  <2>2. /\ SameEvents(r, pde') /\ SameCounter(r, pde')
        /\ pde'.source = r.source /\ pde'.stop = r.stop /\ pde'.pre = r.pre
        /\ pde'.post = r.post /\ pde'.configured = r.configured
        /\ pde'.inUser = r.inUser /\ pde'.size = r.size /\ pde'.sent = r.sent
        /\ pde'.wild = r.wild /\ pde'.toMove = 0 /\ pde'.dropped = r.dropped + r.toMove
        /\ ~pde'.acqActive /\ ~pde'.dma
        /\ pde'.transferActive = r.transferActive /\ pde'.userOpen = r.userOpen
    BY <1>5, <2>1, DisarmFields, DisarmType DEF Quiet
  <2>3. /\ pde'.event = "TRIGGER" /\ pde'.current = 0 /\ pde'.read = 0 /\ pde'.lastPass = 0
        /\ pde'.dropped = 0 /\ pde'.sent = 0 /\ pde'.inUser = 0
        /\ pde'.size \in 1..InBufScans /\ ~pde'.wild /\ Request(pde') = Request(pde)
    BY <1>2, <1>5, <2>2 DEF SameEvents, SameCounter, SameRequest, Request
  <2>4. Requested(pde)'
    BY <1>1, <1>2, <2>1, <2>2, <2>3 DEF Requested, Request
  <2>5. Held(pde)'
    BY <1>1, <1>5, <2>2, <2>3 DEF Ledger, Held, Holding
  <2>6. Ordered(pde)' /\ Awaiting(pde)' /\ Triggered(pde)' /\ Ended(pde)' /\ Owed(pde)'
    BY <2>1, <2>2, <2>3 DEF Ordered, Awaiting, Triggered, Ended, Owed
  <2>7. Bounded(pde)'
    <3>1. Uncounted(pde)' \in Nat
      BY <1>2, <2>1 DEF Uncounted
    <3> QED BY <1>1, <2>2, <3>1, SizesAssumption DEF Bounded
  <2> QED BY <1>3, <2>4, <2>5, <2>6, <2>7 DEF Ledger
<1>7. CASE AdcArmDone
  <2> DEFINE p == IF pde.source = "Hardware" THEN "waiting" ELSE "on"
  <2>1. /\ pde' = [r EXCEPT !.pacer = p, !.dma = TRUE, !.acqActive = TRUE, !.error = "None",
                            !.running = TRUE, !.die = FALSE]
        /\ scans' = 0
    BY <1>7 DEF AdcArmDone, r
  <2>2. hist'.armed = Request(pde)
    BY <1>1, <1>7 DEF AdcArmDone, Request
  <2> HIDE DEF p
  <2>3. /\ SameEvents(r, pde') /\ SameCounter(r, pde') /\ SameTransfer([r EXCEPT !.die = FALSE], pde')
        /\ pde'.source = r.source /\ pde'.stop = r.stop /\ pde'.pre = r.pre
        /\ pde'.post = r.post /\ pde'.configured = r.configured
        /\ pde'.acqActive /\ pde'.dma
    BY <1>5, <2>1, SMTT(30)
       DEF SameEvents, SameCounter, SameTransfer, IsPde, Flags, Counts, Others
  <2>4. /\ pde'.toMove = r.toMove /\ pde'.sent = r.sent /\ pde'.inUser = r.inUser
        /\ pde'.dropped = r.dropped /\ pde'.size = r.size /\ pde'.wild = r.wild
        /\ pde'.transferActive = r.transferActive /\ pde'.userOpen = r.userOpen
    BY <1>5, <2>1, SMTT(30) DEF IsPde, Flags, Counts, Others
  <2>5. /\ pde'.event = "TRIGGER" /\ pde'.current = 0 /\ pde'.read = 0 /\ pde'.lastPass = 0
        /\ pde'.dropped = 0 /\ pde'.sent = 0 /\ pde'.inUser = 0 /\ pde'.toMove = 0
        /\ pde'.size \in 1..InBufScans /\ ~pde'.wild /\ Request(pde') = Request(pde)
        /\ pde'.trigCount = pde'.pre /\ pde'.stopCount = pde'.post
        /\ ~pde'.trigSw /\ ~pde'.stopSw /\ pde'.pre = pde.pre
    BY <1>2, <1>5, <2>3, <2>4 DEF SameEvents, SameCounter, SameRequest, Request
  <2>6. Requested(pde)'
    BY <1>1, <1>2, <2>2, <2>3, <2>5 DEF Requested, Request
  <2>7. Held(pde)'
    BY <1>1, <1>5, <2>4, <2>5 DEF Ledger, Held, Holding
  <2>8. Ordered(pde)' /\ Triggered(pde)' /\ Ended(pde)' /\ Owed(pde)'
    BY <2>1, <2>5 DEF Ordered, Triggered, Ended, Owed
  <2>9. Awaiting(pde)'
    <3>1. pde'.pre \in Nat
      BY <1>1, <2>5 DEF IsPde
    <3> QED BY <2>1, <2>5, <3>1 DEF Awaiting, AtLeast
  <2>10. Bounded(pde)'
    <3>1. Uncounted(pde)' \in Nat
      BY <1>1, <2>2 DEF Uncounted, Request, IsPde
    <3> QED BY <1>1, <2>5, <3>1, SizesAssumption DEF Bounded
  <2> QED BY <1>3, <2>6, <2>7, <2>8, <2>9, <2>10 DEF Ledger
<1> QED BY <1>4, <1>6, <1>7

(* adcStart sets DaafTransferActive.                                       *)
LEMMA ActiveData ==
  ASSUME DInv, ~hist.raced, AdcStartActive
  PROVE  Ledger(pde)' /\ Flagging(pde)'
<1>1. /\ IsPde(pde) /\ Ledger(pde) /\ Flagging(pde) /\ call \in Calls
      /\ call.at = "startOpen" /\ call' = [call EXCEPT !.at = "startTake"]
      /\ UNCHANGED <<scans, fault, hist>>
  BY DEF DInv, IInv, TypeOK, AdcStartActive, Calls
<1>2. PICK t \in Transfers :
        pde' = [pde EXCEPT !.size = t.size, !.cyclic = t.cyclic, !.userHead = 0,
                  !.inUser = 0, !.transferActive = TRUE]
  BY DEF AdcStartActive
<1>3. t.size \in 1..InBufScans
  BY RequestsAssumption
<1>4. call.n = 0 /\ ~Holding /\ pde.userOpen /\ call'.at = "startTake" /\ call'.n = 0
  BY <1>1 DEF Ledger, Held, Holding, Flagging, Calls
<1>5. /\ SameEvents(pde, pde') /\ SameCounter(pde, pde') /\ SameRequest(pde, pde')
      /\ pde'.toMove = pde.toMove /\ pde'.inUser = 0 /\ pde'.size = t.size
      /\ pde'.sent = pde.sent /\ pde'.dropped = pde.dropped /\ pde'.first = pde.first
      /\ pde'.wild = pde.wild /\ pde'.die = pde.die /\ pde'.transferActive
      /\ pde'.userOpen
  BY <1>1, <1>2, <1>4, SMTT(30)
     DEF SameEvents, SameCounter, SameRequest, IsPde, Flags, Counts, Others
<1>6. /\ Requested(pde)' /\ Ordered(pde)' /\ Awaiting(pde)' /\ Triggered(pde)'
      /\ Ended(pde)' /\ Uncounted(pde)' = Uncounted(pde)
  BY <1>1, <1>4, <1>5, RestKept
<1>7. Held(pde)'
  BY <1>1, <1>3, <1>4, <1>5 DEF Ledger, Held, Holding, SameEvents, SameRequest
<1>8. Owed(pde)' /\ Flagging(pde)'
  BY <1>1, <1>4, <1>5 DEF Ledger, Owed, Flagging, SameEvents, SameCounter, SameRequest
<1>9. Bounded(pde)'
  BY <1>1, <1>4, <1>5 DEF Ledger, Bounded, Uncounted, SameEvents
<1> QED BY <1>6, <1>7, <1>8, <1>9 DEF Ledger

LEMMA StartData ==
  ASSUME DInv, ~hist.raced, AdcStartTake \/ AdcStartAdvance \/ AdcStartEnd
  PROVE  Ledger(pde)' /\ Flagging(pde)'
<1>1. /\ IsPde(pde) /\ Ledger(pde) /\ call \in Calls /\ scans' = scans /\ hist' = hist
      /\ hist.armed.pre \in Nat
  BY DEF DInv, IInv, TypeOK, AdcStartTake, AdcStartAdvance, AdcStartEnd, Calls
<1>2. /\ pde.toMove \in Int /\ pde.inUser \in Int /\ pde.size \in Int /\ pde.sent \in Int
      /\ pde.first \in Int /\ pde.dropped \in Int /\ pde.current \in Int
      /\ call.n \in Int
  BY <1>1 DEF IsPde, Counts, Calls
<1>3. CASE AdcStartTake /\ pde.toMove = 0
  <2>1. pde' = pde /\ call'.at = "none" /\ call'.n = 0 /\ call.at = "startTake"
    BY <1>3 DEF AdcStartTake, Idle
  <2>2. call.n = 0
    BY <1>1, <2>1 DEF Ledger, Held, Holding
  <2>3. /\ Requested(pde)' /\ Ordered(pde)' /\ Awaiting(pde)' /\ Triggered(pde)'
        /\ Ended(pde)'
    BY <1>1, <2>1, RestKept DEF SameEvents, SameCounter, SameRequest
  <2>4. Held(pde)'
    BY <1>1, <1>3, <2>1 DEF Ledger, Held, Holding
  <2>5. Owed(pde)' /\ Bounded(pde)' /\ Flagging(pde)'
    BY <1>1, <2>1, <2>2 DEF Ledger, Owed, Bounded, Flagging, Uncounted
  <2> QED BY <2>3, <2>4, <2>5 DEF Ledger
<1>4. CASE AdcStartTake /\ pde.toMove # 0
  <2>1. /\ pde' = [pde EXCEPT !.toMove = 0] /\ call.at = "startTake"
        /\ call' = [call EXCEPT !.at = "startCopy", !.n = pde.toMove]
    BY <1>4 DEF AdcStartTake
  <2>2. call'.at = "startCopy" /\ call'.n = pde.toMove
    BY <1>1, <2>1 DEF Calls
  <2>3. /\ SameEvents(pde, pde') /\ SameCounter(pde, pde') /\ SameRequest(pde, pde')
        /\ pde'.toMove = 0 /\ pde'.transferActive = pde.transferActive
        /\ pde'.sent = pde.sent /\ pde'.dropped = pde.dropped /\ pde'.first = pde.first
        /\ pde'.inUser = pde.inUser /\ pde'.size = pde.size /\ pde'.cyclic = pde.cyclic
        /\ pde'.wild = pde.wild /\ pde'.die = pde.die /\ pde'.userOpen = pde.userOpen
    BY <1>1, <2>1, SMTT(30)
       DEF SameEvents, SameCounter, SameRequest, IsPde, Flags, Counts, Others
  <2>4. call.n = 0 /\ pde.toMove >= 0 /\ pde.event # "TRIGGER"
    BY <1>1, <1>4, <2>1 DEF Ledger, Held, Holding
  <2>5. /\ Requested(pde)' /\ Ordered(pde)' /\ Awaiting(pde)' /\ Triggered(pde)'
        /\ Ended(pde)' /\ Uncounted(pde)' = Uncounted(pde)
    BY <1>1, <2>2, <2>3, RestKept
  <2>6. Held(pde)'
    BY <1>1, <2>1, <2>2, <2>3, <2>4 DEF Ledger, Held, Holding, SameEvents, SameRequest
  <2>7. pde'.toMove + call'.n = pde.toMove + call.n
    BY <1>2, <2>2, <2>3, <2>4
  <2>8. Owed(pde)' /\ Flagging(pde)'
    BY <1>1, <1>2, <2>2, <2>3, <2>4
       DEF Ledger, Owed, Flagging, SameEvents, SameCounter, SameRequest
  <2>9. Bounded(pde)'
    BY <1>1, <2>3, <2>5, <2>7 DEF Ledger, Bounded
  <2> QED BY <2>5, <2>6, <2>8, <2>9 DEF Ledger
<1>5. CASE AdcStartAdvance
  <2> DEFINE d == Advance(pde, call.n)
  <2>1. /\ pde' = (IF call.full THEN AdcStop(d) ELSE d) /\ call.at = "startAdvance"
        /\ call' = [call EXCEPT !.at = "startEnd", !.n = 0]
    <3>1. call.at = "startAdvance"
      BY <1>5 DEF AdcStartAdvance
    <3>2. ~OutOfBounds(pde, call.n)
      BY <1>1, <1>2, <3>1 DEF Ledger, Held, OutOfBounds
    <3> QED BY <1>5, <3>1, <3>2 DEF AdcStartAdvance
  <2>2. call'.at = "startEnd" /\ call'.n = 0
    BY <1>1, <2>1 DEF Calls
  <2>3. /\ IsPde(d) /\ SameEvents(pde, d) /\ SameCounter(pde, d) /\ SameRequest(pde, d)
        /\ d.transferActive = pde.transferActive /\ d.toMove = pde.toMove
        /\ d.size = pde.size /\ d.cyclic = pde.cyclic
        /\ d.dropped = pde.dropped /\ d.first = pde.first
        /\ d.wild = pde.wild /\ d.die = pde.die
        /\ d.inUser = pde.inUser + call.n /\ d.sent = pde.sent + call.n
        /\ d.userOpen = pde.userOpen
    BY <1>1, <1>2, AdvanceType, AdvanceFields
  <2> HIDE DEF d
  <2>4. /\ SameEvents(d, pde') /\ SameCounter(d, pde') /\ SameRequest(d, pde')
        /\ pde'.size = d.size /\ pde'.cyclic = d.cyclic
        /\ pde'.dropped = d.dropped /\ pde'.first = d.first
        /\ pde'.wild = d.wild /\ pde'.toMove = d.toMove
        /\ pde'.inUser = d.inUser /\ pde'.sent = d.sent
        /\ pde'.transferActive => ~call.full /\ d.transferActive /\ pde'.userOpen = d.userOpen
        /\ d.die => pde'.die
    BY <2>1, <2>3, StopFields DEF SameEvents, SameCounter, SameRequest
  <2>5. /\ SameEvents(pde, pde') /\ SameCounter(pde, pde') /\ SameRequest(pde, pde')
        /\ pde'.toMove = pde.toMove /\ pde'.size = pde.size /\ pde'.cyclic = pde.cyclic
        /\ pde'.dropped = pde.dropped /\ pde'.first = pde.first /\ pde'.wild = pde.wild
        /\ pde'.inUser = pde.inUser + call.n /\ pde'.sent = pde.sent + call.n
        /\ pde'.transferActive =>
             ~call.full /\ pde.transferActive /\ pde'.userOpen = pde.userOpen
        /\ pde.die => pde'.die
    BY <2>3, <2>4 DEF SameEvents, SameCounter, SameRequest
  <2>6. /\ Requested(pde)' /\ Ordered(pde)' /\ Awaiting(pde)' /\ Triggered(pde)'
        /\ Ended(pde)' /\ Uncounted(pde)' = Uncounted(pde)
    BY <1>1, <2>2, <2>5, RestKept
  <2>7. /\ pde.event # "TRIGGER" /\ call.n >= 0 /\ pde.sent >= 0 /\ pde.inUser >= 0
        /\ ~pde.wild /\ pde.toMove >= 0 /\ pde.dropped >= 0
        /\ pde.acqActive => pde.dropped = 0
        /\ ~pde.cyclic => pde.inUser + call.n <= pde.size
        /\ pde.transferActive => (pde.toMove = 0 \/ call.full) /\ pde.userOpen
    BY <1>1, <2>1 DEF Ledger, Held, Holding
  <2>8. Held(pde)'
    BY <1>2, <2>2, <2>5, <2>7 DEF Held, Holding, SameEvents, SameRequest
  <2>9. Owed(pde)' /\ Flagging(pde)'
    BY <1>1, <1>2, <2>2, <2>5
       DEF Ledger, Owed, Flagging, SameEvents, SameCounter, SameRequest
  <2>10. Bounded(pde)'
    <3>1. Uncounted(pde) \in Nat
      BY <1>1 DEF Uncounted
    <3>2. pde.toMove + call.n <= (IF pde.die THEN 2 * RingScans ELSE RingScans) + Uncounted(pde)
      BY <1>1 DEF Ledger, Bounded
    <3> QED BY <1>2, <2>2, <2>5, <2>6, <2>7, <3>1, <3>2, SizesAssumption DEF Bounded
  <2> QED BY <2>6, <2>8, <2>9, <2>10 DEF Ledger
<1>6. CASE AdcStartEnd
  <2>1. /\ pde' \in {pde, AdcStop(pde)} /\ call'.at = "none" /\ call'.n = 0
        /\ call.at = "startEnd"
    BY <1>6 DEF AdcStartEnd, Idle
  <2> DEFINE e == IF pde' = pde THEN pde ELSE AdcStop(pde)
  <2>2. pde' = e /\ Ledger(e)
    BY <1>1, <2>1, StoppedLedger
  <2> HIDE DEF e
  <2>3. call.n = 0 /\ ~Holding
    BY <1>1, <2>1 DEF Ledger, Held, Holding
  <2>4. Requested(pde)' /\ Ordered(pde)' /\ Awaiting(pde)' /\ Triggered(pde)' /\ Ended(pde)'
    BY <1>1, <2>1, <2>2 DEF Ledger, Requested, Request, Ordered, Awaiting, Triggered, Ended
  <2>5. Held(pde)'
    BY <2>1, <2>2, <2>3 DEF Ledger, Held, Holding
  <2>6. Owed(pde)' /\ Bounded(pde)' /\ Flagging(pde)'
    BY <1>1, <2>1, <2>2, <2>3 DEF Ledger, Owed, Bounded, Uncounted, Flagging
  <2> QED BY <2>4, <2>5, <2>6 DEF Ledger
<1> QED BY <1>3, <1>4, <1>5, <1>6

LEMMA FlagData ==
  ASSUME DInv, ~hist.raced, AdcSoftTrigFlag
  PROVE  Ledger(pde)' /\ Flagging(pde)'
<1>1. /\ IsPde(pde) /\ Ledger(pde) /\ Flagging(pde) /\ call.at = "trigFlag"
      /\ hist.armed.pre \in Nat
  BY DEF DInv, IInv, TypeOK, AdcSoftTrigFlag
<1>2. PICK e \in {call.event, pde.event} :
        pde' = [pde EXCEPT !.trigSw = pde.trigSw \/ e = "TRIGGER",
                           !.stopSw = pde.stopSw \/ e = "STOP"]
  BY DEF AdcSoftTrigFlag
<1>3. call'.at = "none" /\ call'.n = 0 /\ scans' = scans /\ hist' = hist
  BY DEF AdcSoftTrigFlag, Idle
<1> DEFINE tsw == pde.trigSw \/ e = "TRIGGER"
           ssw == pde.stopSw \/ e = "STOP"
<1>4. tsw \in BOOLEAN /\ ssw \in BOOLEAN /\ (pde.trigSw => tsw)
  BY <1>1 DEF IsPde, Flags
<1>5. pde.event # "POSTSTOP" => e = pde.event
  BY <1>1 DEF Flagging
<1>6. /\ pde.event = "TRIGGER" => ssw = pde.stopSw
      /\ pde.event = "STOP" => tsw = pde.trigSw
  BY <1>1, <1>4, <1>5 DEF IsPde, Flags
<1> HIDE DEF tsw, ssw
<1>7. /\ SameTransfer(pde, pde') /\ SameCounter(pde, pde') /\ SameRequest(pde, pde')
      /\ pde'.event = pde.event /\ pde'.trigHw = pde.trigHw
      /\ pde'.trigCount = pde.trigCount /\ pde'.trigScan = pde.trigScan
      /\ pde'.stopCount = pde.stopCount /\ pde'.stopScan = pde.stopScan
      /\ pde'.trigSw = tsw /\ pde'.stopSw = ssw
  <2>1. pde' = [pde EXCEPT !.trigSw = tsw, !.stopSw = ssw]
    BY <1>2 DEF tsw, ssw
  <2> QED BY <1>1, <1>4, <2>1, SMTT(30)
          DEF SameTransfer, SameCounter, SameRequest, IsPde, Flags, Counts, Others
<1>8. call.n = 0 /\ ~Holding
  BY <1>1 DEF Ledger, Held, Holding
<1>9. Requested(pde)'
  BY <1>1, <1>3, <1>7 DEF Ledger, Requested, Request, SameRequest
<1>10. Held(pde)'
  BY <1>1, <1>3, <1>7, <1>8 DEF Ledger, Held, Holding, SameTransfer, SameRequest
<1>11. Ordered(pde)' /\ Ended(pde)' /\ Flagging(pde)'
  BY <1>1, <1>3, <1>7 DEF Ledger, Ordered, Ended, Flagging, SameCounter, SameTransfer
<1>12. Awaiting(pde)'
  BY <1>1, <1>3, <1>6, <1>7 DEF Ledger, Awaiting, Flagging, SameCounter, SameRequest
<1>13. Triggered(pde)'
  BY <1>1, <1>3, <1>7 DEF Ledger, Triggered, Flagging, SameCounter, SameRequest, SameTransfer
<1>14. Owed(pde)'
  <2>1. pde.first \in Int
    BY <1>1 DEF IsPde, Counts
  <2> QED BY <1>1, <1>3, <1>4, <1>7, <1>8, <2>1
          DEF Ledger, Owed, SameCounter, SameRequest, SameTransfer
<1>15. Bounded(pde)'
  <2>1. Uncounted(pde) <= Uncounted(pde)' /\ Uncounted(pde) \in Nat /\ Uncounted(pde)' \in Nat
    BY <1>1, <1>3, <1>4, <1>7 DEF Uncounted
  <2>2. pde.toMove \in Int
    BY <1>1 DEF IsPde, Counts
  <2>3. pde.toMove + call.n <= (IF pde.die THEN 2 * RingScans ELSE RingScans) + Uncounted(pde)
    BY <1>1 DEF Ledger, Bounded
  <2> QED BY <1>3, <1>7, <1>8, <2>1, <2>2, <2>3, SizesAssumption DEF Bounded, SameTransfer
<1> QED BY <1>9, <1>10, <1>11, <1>12, <1>13, <1>14, <1>15 DEF Ledger

LEMMA BoardData ==
  ASSUME DInv, ~hist.raced, Board
  PROVE  Ledger(pde)' /\ Flagging(pde)'
<1>1. /\ IsPde(pde) /\ Ledger(pde) /\ Flagging(pde) /\ scans \in Nat
      /\ call' = call /\ hist' = hist
  BY DEF DInv, IInv, TypeOK, Board, BoardScan, BoardTrigger, BoardFault
<1>2. CASE BoardScan
  <2>1. pde' = pde /\ scans' = scans + 1 /\ pde.pacer = "on"
    BY <1>2 DEF BoardScan
  <2>2. pde.read \in Int
    BY <1>1 DEF IsPde, Counts
  <2>3. Requested(pde)' /\ Held(pde)' /\ Triggered(pde)' /\ Ended(pde)' /\ Flagging(pde)'
    BY <1>1, <2>1 DEF Ledger, Requested, Request, Held, Holding, Triggered, Ended, Flagging
  <2>4. Ordered(pde)'
    BY <1>1, <2>1, <2>2 DEF Ledger, Ordered
  <2>5. Awaiting(pde)'
    BY <1>1, <2>1 DEF Ledger, Awaiting
  <2>6. Owed(pde)' /\ Bounded(pde)'
    BY <1>1, <2>1 DEF Ledger, Owed, Bounded, Uncounted
  <2> QED BY <2>3, <2>4, <2>5, <2>6 DEF Ledger
<1>3. CASE BoardTrigger
  <2>1. pde' = [pde EXCEPT !.pacer = "on"] /\ scans' = scans
    BY <1>3 DEF BoardTrigger
  <2>2. /\ SameEvents(pde, pde') /\ SameCounter(pde, pde') /\ SameTransfer(pde, pde')
        /\ pde'.source = pde.source /\ pde'.stop = pde.stop /\ pde'.pre = pde.pre
        /\ pde'.post = pde.post /\ pde'.configured = pde.configured
        /\ pde'.acqActive = pde.acqActive /\ pde'.dma = pde.dma /\ pde'.pacer = "on"
    BY <1>1, <2>1, SMTT(30) DEF SameEvents, SameCounter, SameTransfer, IsPde, Flags, Counts, Others
  <2>3. Requested(pde)' /\ Held(pde)' /\ Ordered(pde)'
    BY <1>1, <2>1, <2>2 DEF Ledger, Requested, Request, Held, Holding, Ordered,
       SameEvents, SameCounter, SameTransfer
  <2>4. Awaiting(pde)' /\ Triggered(pde)'
    BY <1>1, <2>1, <2>2 DEF Ledger, Awaiting, Triggered, SameEvents, SameCounter, SameTransfer
  <2>5. Ended(pde)' /\ Owed(pde)' /\ Bounded(pde)' /\ Flagging(pde)'
    BY <1>1, <2>1, <2>2 DEF Ledger, Ended, Owed, Bounded, Uncounted, Flagging,
       SameEvents, SameCounter, SameTransfer
  <2> QED BY <2>3, <2>4, <2>5 DEF Ledger
<1>4. CASE BoardFault
  <2>1. pde' = pde /\ scans' = scans
    BY <1>4 DEF BoardFault
  <2> QED BY <1>1, <2>1, Carried
<1> QED BY <1>2, <1>3, <1>4 DEF Board
-----------------------------------------------------------------------------
(* A callback that has hit a bad place stays in the history.               *)
LEMMA RacedStays == DInv /\ [Next]_vars => (hist.raced => hist'.raced)
<1> SUFFICES ASSUME DInv, [Next]_vars, hist.raced PROVE hist'.raced
  OBVIOUS
<1>1. hist \in [raced: BOOLEAN, arms: Nat,
                armed: [source: Sources, stop: StopSources, pre: Nat, post: Nat]]
  BY DEF DInv, IInv, TypeOK
<1>2. CASE AdcEventL
  BY <1>1, <1>2, Zenon DEF AdcEventL
<1>3. CASE AdcArmDone
  <2>1. hist' = [hist EXCEPT !.arms = @ + 1,
                   !.armed = [source |-> pde.source, stop |-> pde.stop,
                              pre |-> pde.pre, post |-> pde.post]]
    BY <1>3 DEF AdcArmDone
  <2> QED BY <1>1, <2>1
<1>4. CASE ~AdcEventL /\ ~AdcArmDone
  <2>1. CASE Program
    BY <2>1, Zenon DEF Program, AdcConfigure, AdcArmBegin, AdcDisarmCall, AdcStopCall,
       AdcGetStatus, AdcStartBegin, AdcSoftTrigScan, OneStep
  <2>2. CASE Continue
    BY <1>4, <2>2 DEF Continue, AdcArmTimeout, AdcArmInitFailure, AdcStartActive,
       AdcStartTake, AdcStartCopy, AdcStartAdvance, AdcStartEnd, AdcSoftTrigFlag
  <2>3. CASE Board \/ Undefined \/ UNCHANGED vars
    BY <2>3 DEF Board, BoardScan, BoardTrigger, BoardFault, Undefined, vars
  <2> QED BY <1>4, <2>1, <2>2, <2>3 DEF Next
<1> QED BY <1>2, <1>3, <1>4

LEMMA NextDInv == DInv /\ [Next]_vars => DInv'
<1> SUFFICES ASSUME DInv, [Next]_vars, ~hist'.raced
             PROVE  Ledger(pde)' /\ Flagging(pde)'
  BY NextIInv DEF DInv
<1>1. ~hist.raced /\ Ledger(pde) /\ Flagging(pde)
  BY RacedStays DEF DInv
<1>2. CASE UNCHANGED vars \/ Undefined
  <2>1. UNCHANGED vars
    BY <1>2 DEF Undefined
  <2> QED BY <1>1, <2>1, Carried DEF vars
<1>3. CASE AdcEventL
  BY <1>3, TimerData
<1>4. CASE Program
  BY <1>1, <1>4, ProgramData
<1>5. CASE Continue
  BY <1>1, <1>5, ArmData, ActiveData, StartCopyData, StartData, FlagData
     DEF Continue
<1>6. CASE Board
  BY <1>1, <1>6, BoardData
<1> QED BY <1>2, <1>3, <1>4, <1>5, <1>6 DEF Next

LEMMA DataInvariance == Spec => []DInv
<1> QED BY InitDInv, NextDInv, PTL DEF Spec

(* Every scan owed is delivered, waits, was thrown away by adcDisarm or is *)
(* in the hands of adcStart; a stop on a scan count hands over exactly the *)
(* scans asked for; the count of the user's buffer never passes its size   *)
(* (copyNewScans, OnTrigger, OnStop), for every ring, buffer and request.  *)
THEOREM ScansConserved == Spec => []Conservation
<1>1. DInv => Conservation
  <2> SUFFICES ASSUME DInv PROVE Conservation
    OBVIOUS
  <2>1. CASE ~Sound
    BY <2>1 DEF Conservation, NothingLost, ExactCount, NoUserOverflow
  <2>2. CASE Sound
    <3>1. /\ IsPde(pde) /\ Owed(pde) /\ Ended(pde) /\ Held(pde) /\ call \in Calls
          /\ hist.armed.pre \in Nat /\ hist.armed.post \in Nat
      BY <2>2 DEF DInv, IInv, TypeOK, Ledger, Sound, Calls
    <3>2. NothingLost
      BY <3>1 DEF NothingLost, Counted, Owed
    <3>3. ExactCount
      <4>1. /\ pde.first \in Int /\ pde.sent \in Int /\ pde.toMove \in Int
            /\ pde.dropped \in Int /\ pde.current \in Int /\ call.n \in Int
        BY <3>1 DEF IsPde, Counts, Calls
      <4>2. CASE pde.event = "POSTSTOP" /\ hist.armed.stop = "ScanCount"
        <5>1. pde.current + 1 = pde.first + hist.armed.pre + hist.armed.post
          BY <3>1, <4>2 DEF Ended
        <5>2. pde.first + pde.sent + pde.toMove + pde.dropped + call.n = pde.current + 1
          BY <3>1, <4>2 DEF Owed
        <5>3. pde.sent + pde.toMove + pde.dropped + call.n = hist.armed.pre + hist.armed.post
          <6> DEFINE p == hist.armed.pre
                     q == hist.armed.post
                     x == pde.sent + pde.toMove + pde.dropped + call.n
          <6>1. p \in Int /\ q \in Int /\ x \in Int
            BY <3>1, <4>1
          <6>2. pde.current + 1 = pde.first + p + q
            BY <5>1
          <6>3. pde.first + x = pde.current + 1
            BY <4>1, <5>2
          <6> HIDE DEF p, q, x
          <6>4. x = p + q
            BY <4>1, <6>1, <6>2, <6>3
          <6> QED BY <6>4 DEF p, q, x
        <5> QED BY <5>3 DEF ExactCount
      <4> QED BY <4>2 DEF ExactCount
    <3>4. NoUserOverflow
      BY <3>1 DEF NoUserOverflow, Held
    <3> QED BY <3>2, <3>3, <3>4 DEF Conservation
  <2> QED BY <2>1, <2>2
<1> QED BY <1>1, DataInvariance, PTL

(* The scans counted that wait in the ring or in adcStart's hands never    *)
(* outnumber the ring, or two rings when the timer has been told to die,   *)
(* but for those that adcCheckFatalErrors does not count: the scans before *)
(* the trigger and the one of a software trigger.                          *)
THEOREM BacklogStaysBounded == Spec => []BacklogBounded
<1>1. DInv => BacklogBounded
  BY DEF DInv, Sound, Ledger, Bounded, BacklogBounded
<1> QED BY <1>1, DataInvariance, PTL

(* No length handed to copyNewScans goes below zero and none is computed   *)
(* from a NULL userInpBuf, so no copy leaves its buffer, unless a callback *)
(* has acted on half of an adcStart (before it sets DaafTransferActive,    *)
(* before it takes the backlog, or between its memcpy and the moves of the *)
(* heads) or of an adcSoftTrig (between its two stores).                   *)
THEOREM WildNeedsRace == Spec => []WildOnlyIfRaced
<1>1. DInv => WildOnlyIfRaced
  BY DEF DInv, Ledger, Held, WildOnlyIfRaced
<1> QED BY <1>1, DataInvariance, PTL

(* The trigger of checkForEvent never puts the first scan owed before the  *)
(* first scan taken, but for the one that adcSoftTrig may name when the    *)
(* pre-trigger count has just been used up.                                *)
THEOREM PretriggerTaken == Spec => []PretriggerExists
<1>1. DInv => PretriggerExists
  BY DEF DInv, Sound, Ledger, Owed, Counted, PretriggerExists
<1> QED BY <1>1, DataInvariance, PTL

(* Outside the callback only adcStart's copy can be of overwritten scans.  *)
LEMMA ProgramCopiesNone ==
  ASSUME DInv, Program
  PROVE  pde'.stale = pde.stale
<1>0. IsPde(pde) /\ scans \in Nat
  BY DEF DInv, IInv, TypeOK
<1>d. \A d : IsPde(d) => "stale" \in DOMAIN d
  BY DEF IsPde, Flags
<1> DEFINE w == WithArg(pde)
<1>w. IsPde(w) /\ w.stale = pde.stale
  BY <1>0, WithArgType, WithArgFields
<1> HIDE DEF w
<1>1. CASE AdcConfigure
  <2>1. CASE OneStep([w EXCEPT !.configured = FALSE])
    BY <1>w, <1>d, <2>1 DEF OneStep
  <2>2. ASSUME NEW c \in Configs,
               OneStep([w EXCEPT !.configured = FALSE,
                                 !.source = c.source, !.stop = c.stop])
        PROVE  pde'.stale = pde.stale
    BY <1>w, <1>d, <2>2 DEF OneStep
  <2>3. ASSUME NEW c \in Configs,
               OneStep([w EXCEPT !.configured = TRUE,
                           !.source = c.source, !.stop = c.stop,
                           !.pre = c.pre, !.post = c.post,
                           !.trigCount = c.pre, !.stopCount = c.post])
        PROVE  pde'.stale = pde.stale
    BY <1>w, <1>d, <2>3 DEF OneStep
  <2> QED BY <1>1, <2>1, <2>2, <2>3 DEF AdcConfigure, w
<1>2. CASE AdcArmBegin
  <2> DEFINE e == AdcDisarm(w)
  <2>1. pde' = w \/ pde' = [e EXCEPT !.die = e.die \/ pde.running]
    BY <1>2 DEF AdcArmBegin, OneStep, w
  <2>2. IsPde(e) /\ e.stale = w.stale
    BY <1>w, DisarmType, DisarmFields
  <2> HIDE DEF e
  <2> QED BY <1>w, <2>1, <2>2, <1>d
<1>3. CASE AdcDisarmCall \/ AdcStopCall \/ AdcGetStatus
  <2>1. pde' \in {AdcDisarm(w), AdcStop(w), [w EXCEPT !.error = "None"]}
    BY <1>3 DEF AdcDisarmCall, AdcStopCall, AdcGetStatus, OneStep, w
  <2>2. AdcDisarm(w).stale = w.stale /\ AdcStop(w).stale = w.stale
    BY <1>w, DisarmFields, StopFields
  <2> QED BY <1>w, <2>1, <2>2, <1>d
<1>4. CASE AdcStartBegin
  <2>1. CASE OneStep(w)
    BY <1>w, <2>1 DEF OneStep
  <2>2. CASE ~OneStep(w)
    <3>1. pde' = [w EXCEPT !.userOpen = TRUE]
      BY <1>4, <2>2 DEF AdcStartBegin, w
    <3> QED BY <1>w, <1>d, <3>1
  <2> QED BY <2>1, <2>2
<1>5. CASE AdcSoftTrigScan
  <2>2. ASSUME NEW lag \in 0..FifoScans
        PROVE  IsPde(ReadAcqScanCounter(w, lag)) /\ ReadAcqScanCounter(w, lag).stale = w.stale
    <3>1. lag \in Nat
      BY SizesAssumption
    <3>2. IsPde(ReadAcqScanCounter(w, lag))
      BY <1>0, <1>w, <3>1, ReadType
    <3>3. ReadAcqScanCounter(w, lag).stale = w.stale
      BY <1>w, <1>d DEF ReadAcqScanCounter
    <3> QED BY <3>2, <3>3
  <2>1. CASE OneStep(w)
    BY <1>w, <2>1 DEF OneStep
  <2>3. CASE ~OneStep(w)
    <3>1. PICK lag \in 0..FifoScans :
            LET r == ReadAcqScanCounter(w, lag)
            IN  pde' = [r EXCEPT
                     !.trigScan = IF r.event = "TRIGGER" THEN r.read ELSE @,
                     !.stopScan = IF r.event = "STOP" THEN r.read ELSE @]
      BY <1>5, <2>3 DEF AdcSoftTrigScan, w
    <3> DEFINE r == ReadAcqScanCounter(w, lag)
    <3>2. IsPde(r) /\ r.stale = w.stale
      BY <2>2
    <3> DEFINE a == IF r.event = "TRIGGER" THEN r.read ELSE r.trigScan
               b == IF r.event = "STOP" THEN r.read ELSE r.stopScan
    <3>3. pde' = [r EXCEPT !.trigScan = a, !.stopScan = b]
      BY <3>1
    <3> HIDE DEF r, a, b
    <3> QED BY <1>w, <1>d, <3>2, <3>3
  <2> QED BY <2>1, <2>3
<1> QED BY <1>1, <1>2, <1>3, <1>4, <1>5 DEF Program

LEMMA OnlyStartCopies ==
  ASSUME DInv, Continue \/ Board \/ Undefined
  PROVE  call' # call \/ pde'.stale = pde.stale \/ pde'.stale = FALSE
<1>0. IsPde(pde) /\ call \in Calls
  BY DEF DInv, IInv, TypeOK, Calls
<1>d. \A d : IsPde(d) => "stale" \in DOMAIN d
  BY DEF IsPde, Flags
<1>1. CASE AdcArmTimeout \/ AdcArmInitFailure \/ AdcArmDone
  <2> DEFINE r == Rearmed(pde)
  <2>1. IsPde(r) /\ r.stale = FALSE
    <3>1. IsPde(r)
      BY <1>0, RearmedType
    <3>2. r.stale = FALSE
      BY <1>0 DEF Rearmed, IsPde, Flags, Counts, Others
    <3> QED BY <3>1, <3>2
  <2>2. AdcDisarm(r).stale = r.stale
    BY <2>1, DisarmFields
  <2>3. \/ pde' = pde \/ pde' = AdcDisarm(r)
        \/ pde' = [r EXCEPT !.pacer = IF pde.source = "Hardware" THEN "waiting" ELSE "on",
               !.dma = TRUE, !.acqActive = TRUE, !.error = "None",
               !.running = TRUE, !.die = FALSE]
    BY <1>1 DEF AdcArmTimeout, AdcArmInitFailure, AdcArmDone
  <2> DEFINE a == IF pde.source = "Hardware" THEN "waiting" ELSE "on"
             g == [r EXCEPT !.pacer = a, !.dma = TRUE, !.acqActive = TRUE, !.error = "None",
                            !.running = TRUE, !.die = FALSE]
  <2>4. pde' \in {pde, AdcDisarm(r), g}
    BY <2>3
  <2> HIDE DEF r, a
  <2>5. g.stale = r.stale
    BY <2>1, <1>d
  <2> HIDE DEF g
  <2> QED BY <2>1, <2>2, <2>4, <2>5
<1>2. CASE AdcStartTake \/ AdcSoftTrigFlag
  <2>1. \/ pde' = pde \/ pde' = [pde EXCEPT !.toMove = 0]
        \/ \E e \in {call.event, pde.event} :
             pde' = [pde EXCEPT !.trigSw = pde.trigSw \/ e = "TRIGGER",
                                !.stopSw = pde.stopSw \/ e = "STOP"]
    BY <1>2 DEF AdcStartTake, AdcSoftTrigFlag
  <2> QED BY <1>0, <2>1, <1>d
<1>3. CASE AdcStartAdvance \/ AdcStartEnd
  <2> DEFINE d == Advance(pde, call.n)
  <2>1. IsPde(d) /\ d.stale = pde.stale
    BY <1>0, AdvanceType, AdvanceFields DEF Calls
  <2>2. pde' \in {pde, AdcStop(pde), d, AdcStop(d), [pde EXCEPT !.wild = TRUE]}
    BY <1>3 DEF AdcStartAdvance, AdcStartEnd
  <2> HIDE DEF d
  <2>3. AdcStop(pde).stale = pde.stale /\ AdcStop(d).stale = d.stale
    BY <1>0, <2>1, StopFields
  <2> QED BY <1>0, <1>d, <2>1, <2>2, <2>3
<1>4. CASE Board \/ Undefined
  <2>1. pde' = pde \/ pde' = [pde EXCEPT !.pacer = "on"]
    BY <1>4 DEF Board, BoardScan, BoardTrigger, BoardFault, Undefined, vars
  <2> QED BY <1>0, <2>1, <1>d
<1>5. CASE AdcStartCopy
  <2>1. call.at = "startCopy" /\ call'.at \in {"startEnd", "startAdvance"}
    BY <1>0, <1>5 DEF AdcStartCopy, Calls
  <2> QED BY <2>1
<1>6. CASE AdcStartActive
  <2>1. PICK t \in Transfers :
          pde' = [pde EXCEPT !.size = t.size, !.cyclic = t.cyclic, !.userHead = 0,
                    !.inUser = 0, !.transferActive = TRUE]
    BY <1>6 DEF AdcStartActive
  <2> QED BY <1>0, <1>d, <2>1
<1> QED BY <1>1, <1>2, <1>3, <1>4, <1>5, <1>6 DEF Continue

(* Of the scans that a callback copies, however late it comes, the board   *)
(* has overwritten at most those that the check of adcCheckFatalErrors     *)
(* does not see (what the reading of the counter lags by, what is in       *)
(* adcStart's hands, what a trigger does not count), less the scans of the *)
(* pass before: none, if the readings are exact and nothing is uncounted.  *)
THEOREM CallbackCopiesIntact == Spec => TimerCopiesIntact
<1> DEFINE Intact ==
      pde'.stale /\ ~pde.stale /\ ~hist'.raced /\ call' = call =>
        LET unseen == FifoScans + call.n
                      + (IF pde.event = "TRIGGER" THEN Uncounted(pde) ELSE 0)
            lapped == scans - RingScans - (pde'.first + pde.sent) + 1
        IN  lapped <= unseen - pde.lastPass
<1>1. DInv /\ [Next]_vars => [Intact]_vars
  <2> SUFFICES ASSUME DInv, Next PROVE Intact
    OBVIOUS
  <2>1. CASE AdcEventL
    BY <2>1, TimerData DEF CopiesAtMost, Unnoticed
  <2>2. CASE Program \/ Continue \/ Board \/ Undefined
    BY <2>2, ProgramCopiesNone, OnlyStartCopies
  <2> QED BY <2>1, <2>2 DEF Next
<1> QED BY <1>1, DataInvariance, PTL DEF Spec, TimerCopiesIntact
=============================================================================
