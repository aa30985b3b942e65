---------------------------- MODULE DacWaveform ----------------------------
(***************************************************************************)
(* The analog-output engine of the driver (db2kdriver/dac.c): the ioctls   *)
(* that set a channel's mode, copy a waveform into the kernel, configure,  *)
(* arm, trigger, disarm and stop; the timer callback dacEventL; and the    *)
(* board, whose DMA walks the output ring and whose pacer takes one sample *)
(* for each enabled channel at an update.                                  *)
(*                                                                         *)
(* Granularity: a uniprocessor, as in AdcAcquisition.  The callback is one *)
(* action, an ioctl is one but for dacArm, which a callback of the         *)
(* waveform before may interrupt.  This module has the actions; who        *)
(* performs them, a program by itself or the library, says DacSession.     *)
(***************************************************************************)
EXTENDS Integers, Sequences, FiniteSets

CONSTANTS
  Chans,       \* output channels: 0.. (numDacs - 1), and Digital
  RingSamples, \* DMAOUTBUFSIZE less the pad block: samples the ring holds
  Block,       \* samples of a block, which has a descriptor of its own
  FifoDepth,   \* samples the board's FIFO holds
  Word,        \* 2^16: values of the board's update counter
  MinDynamic,  \* 256: shortest dynamic waveform
  Lens,        \* lengths of the waveforms the program asks for
  Confs,       \* what the program asks of dacConfigure
  MaxUpdates,  \* bound: updates of the board after an arm
  MaxGap       \* bound: updates between two readings of the counter

Digital == 4   \* dacOut[4], the digital port

ASSUME DacAssumption ==
  /\ Chans \subseteq 0..Digital
  /\ RingSamples \in Nat \ {0} /\ Block \in 1..RingSamples /\ FifoDepth \in Nat
  /\ Cardinality(Chans) <= FifoDepth
  /\ Word \in Nat /\ MaxGap \in Nat /\ MaxGap < Word   \* 200 kHz, 10 ms
  /\ MinDynamic \in Nat /\ MaxUpdates \in Nat
  /\ Lens \subseteq Nat \ {0} /\ IsFiniteSet(Lens) /\ Lens # {}
  /\ Confs \subseteq [infinite: BOOLEAN, stop: Nat, trig: {"immediate", "software"}]
  /\ \A c \in Confs : c.stop = 0 => c.infinite

VARIABLES
  pde,    \* the DEVICE_EXTENSION, as dac.c uses it, with ring and descriptors
  board,  \* where the DMA is, the FIFO, the update counter, the error bit
  call,   \* dacArm in progress: the step that comes next
  hist    \* history, read by the properties only

dacVars == <<pde, board, call, hist>>

Junk == <<>>                \* a sample that is nobody's
Upto(a, b) == IF a <= b THEN a ELSE b

(* The channels of S, lowest first.                                        *)
InOrder(S) ==
  LET D == 1..Cardinality(S)
  IN  CHOOSE s \in [D -> S] : \A i, j \in D : i < j => s[i] < s[j]
MaxLen == CHOOSE n \in Lens : \A m \in Lens : m <= n

(* A channel: its mode, whether it has a transfer (bufMdl) and a buffer,   *)
(* how far bufHead is past the start of the buffer, the length of the      *)
(* transfer, and what kmalloc gave to dacOutbuffer.                        *)
NoTransfer == [mode |-> "voltage", mdl |-> FALSE, buf |-> FALSE, head |-> 0,
               size |-> 0, room |-> 0]

NoSamples == [i \in 0..(RingSamples - 1) |-> Junk]

InitPde ==
  [chan |-> [c \in Chans |-> NoTransfer],
   conf |-> [infinite |-> FALSE, stop |-> 0, trig |-> "immediate"],
   single |-> 0, n |-> 0, first |-> 0, dynamic |-> FALSE, total |-> 0,
   ring |-> RingSamples, last |-> 0, pending |-> FALSE, cut |-> FALSE,
   cells |-> NoSamples, pad |-> Junk,
   active |-> FALSE, triggered |-> FALSE, transfer |-> FALSE, error |-> "None",
   count |-> 0, old |-> 0, dmaed |-> 0, removed |-> 0,
   dma |-> FALSE, pacer |-> FALSE, enabled |-> {},
   running |-> FALSE, die |-> FALSE, timer |-> FALSE]

Waves(p, mode) == {c \in Chans : p.chan[c].mode = mode}
-----------------------------------------------------------------------------
(* Disarm, stop, mode, configuration.                                      *)
(* dacOutbuffer[x] is set to NULL and then freed: nothing is.  Without DMA *)
(* nothing reads the ring, its descriptors and the counters of samples not *)
(* reported before dacArm writes them again (Rest); what a dynamic         *)
(* waveform finds in the ring is nobody's (CopyUserSamples).               *)
Rest(p) ==
  [p EXCEPT !.cells = NoSamples, !.pad = Junk, !.first = 0, !.total = 0, !.count = 0,
            !.old = 0, !.ring = RingSamples, !.pending = FALSE, !.cut = FALSE,
            !.dynamic = FALSE]

Disarm(p) ==
  [Rest(p) EXCEPT !.pacer = FALSE, !.enabled = {}, !.dma = FALSE,
                  !.active = FALSE, !.triggered = FALSE,
                  !.chan = [c \in Chans |-> [p.chan[c] EXCEPT !.room = 0]]]

(* The digital channel keeps its buffer: the loop ends before it.          *)
Stop(p) ==
  [p EXCEPT !.transfer = FALSE, !.die = TRUE,
            !.chan = [c \in Chans |->
                        IF c = Digital THEN p.chan[c]
                        ELSE [p.chan[c] EXCEPT !.buf = FALSE, !.mdl = @ /\ ~p.chan[c].buf]]]

ModeRefused(p, c, m) == p.dma /\ (p.chan[c].mode # "voltage" \/ m # "voltage")

SetMode(p, c, m) ==
  IF ModeRefused(p, c, m) THEN p
  ELSE [p EXCEPT !.chan[c].mode = m, !.enabled = @ \ {c}]

(* A transfer of len samples; kmalloc only where dacOutbuffer is NULL.     *)
Start(p, c, len) ==
  LET had == p.chan[c]
  IN  [p EXCEPT !.chan[c] = [had EXCEPT !.mdl = TRUE, !.buf = TRUE, !.head = 0, !.size = len,
                                        !.room = IF had.room = 0 THEN len ELSE had.room],
                !.single = len, !.transfer = TRUE]
-----------------------------------------------------------------------------
(* dacSetupBuffer.  The lengths are those of the channels that have a      *)
(* transfer, in voltage mode too, but only the first n of them, n waveform *)
(* channels, are compared.                                                 *)
Transfers(p) == InOrder({c \in Chans : p.chan[c].mdl})
Static(p)    == {c \in Waves(p, "static") : p.chan[c].mdl}
Dynamic(p)   == {c \in Waves(p, "dynamic") : p.chan[c].mdl}
NumWaves(p)  == Cardinality(Static(p)) + Cardinality(Dynamic(p))

SizesEqualButLast(p) ==  \* mutant: the last waveform is not compared
  \A i \in 1..(NumWaves(p) - 1) : p.chan[Transfers(p)[i]].size = p.chan[Transfers(p)[1]].size

SizesEqual(p) ==
  \A i \in 1..NumWaves(p) : p.chan[Transfers(p)[i]].size = p.chan[Transfers(p)[1]].size

SetupError(p) ==
  CASE Static(p) # {} /\ Dynamic(p) # {} -> "InvMode"
    [] NumWaves(p) = 0 -> "InvMode"
    [] ~SizesEqual(p) -> "BuffersNotEqual"
    [] Dynamic(p) # {} /\ NumWaves(p) > 1 -> "BuffersNotEqual"   \* each its own buffer
    [] Dynamic(p) # {} /\ p.chan[Transfers(p)[1]].size < MinDynamic -> "BufferTooSmall"
    [] Dynamic(p) = {} /\ RingSamples < p.single * NumWaves(p) -> "NotEnoughMemory"
    [] OTHER -> "None"

SetupBuffer(p) ==
  LET n == NumWaves(p)
      q == [p EXCEPT !.n = n, !.first = p.chan[Transfers(p)[1]].size,
                     !.pending = FALSE, !.cut = FALSE, !.total = p.conf.stop * n,
                     !.dynamic = Dynamic(p) # {}, !.pad = [i \in 1..n |-> Junk]]
  IN  IF q.dynamic THEN [q EXCEPT !.ring = RingSamples]
      ELSE [q EXCEPT !.ring = (RingSamples \div (p.single * n)) * p.single * n]

(* The sample i places past the start of a channel's buffer.               *)
Sample(p, c, i) == IF i < p.chan[c].size THEN <<c, i>> ELSE Junk

(* primeDmaOutputBuffer of static waveforms: every channel in static mode, *)
(* with a transfer or not, gives a sample in turn, and the period is       *)
(* copied until the ring is full.                                          *)
Period(p) ==
  LET w == InOrder(Waves(p, "static"))
  IN  [i \in 0..(Len(w) * p.single - 1) |->
         LET c == w[(i % Len(w)) + 1] IN Sample(p, c, p.chan[c].head + (i \div Len(w)))]

Copied(p) == Cardinality(DOMAIN Period(p)) * (RingSamples \div (p.single * p.n))

PrimeStatic(p) ==
  LET period == Period(p)
      size   == Cardinality(DOMAIN period)
  IN  [p EXCEPT
         !.cells = [i \in DOMAIN @ |-> IF i < Copied(p) THEN period[i % size] ELSE @[i]],
         !.removed = p.total,
         !.chan = [c \in Chans |->
                     IF p.chan[c].mode # "static" THEN p.chan[c]
                     ELSE [p.chan[c] EXCEPT !.head = Upto(@ + p.single, MaxLen)]]]

(* copyUserSamplesToInternalBuf: dacRepmov is empty, only the count goes.  *)
CopyUserSamples(p, n) ==
  IF n = 0 \/ ~p.transfer THEN p
  ELSE [p EXCEPT !.removed = IF p.conf.infinite THEN @ + n ELSE Upto(@ + n, p.total)]

Prime(p) == IF p.dynamic THEN CopyUserSamples(p, Upto(p.first \div 2, RingSamples))
            ELSE PrimeStatic(p)
-----------------------------------------------------------------------------
(* The end of a counted waveform: the descriptor of the block in which the *)
(* last cycle ends is cut there and leads to the pad block, which repeats  *)
(* the last sample of each channel for ever.                               *)
LastCycle(p)  == IF p.total % p.ring = 0 THEN p.ring ELSE p.total % p.ring
FinalBlock(p) == IF p.last = 0 THEN 0 ELSE (p.last - 1) \div Block
BlockEnd(p, b) == Upto((b + 1) * Block, p.ring)

ComputePadBlockInfo(p) ==
  IF p.conf.infinite THEN p
  ELSE LET q == [p EXCEPT !.last = LastCycle(p)]
           final == BlockEnd(q, FinalBlock(q)) - FinalBlock(q) * Block
       IN  [q EXCEPT !.cut = p.dynamic /\ 4 * final > p.total]

PadPointLate(p) ==  \* mutant: lastPointIndex is not decremented
  p.conf.stop % p.single

PadPoint(p) ==
  IF p.conf.stop % p.single = 0 THEN p.single - 1 ELSE (p.conf.stop % p.single) - 1

FillPadStatic(p) ==
  LET w == InOrder(Waves(p, "static"))
  IN  [p EXCEPT !.pad = [i \in 1..p.n |-> IF p.chan[w[i]].buf
                                          THEN Sample(p, w[i], PadPoint(p)) ELSE Junk]]

(* A dynamic waveform has one channel (SetupError).                        *)
FillPadDynamic(p) == [p EXCEPT !.pad = <<p.cells[LastCycle(p) - 1]>>]

PrepareToStop(p) ==
  IF p.pending \/ p.conf.infinite THEN p
  ELSE IF p.dynamic
  THEN IF p.removed < p.total THEN p
       ELSE [FillPadDynamic(p) EXCEPT !.cut = TRUE, !.pending = TRUE]
  ELSE IF p.total - p.dmaed > p.ring THEN p
       ELSE [p EXCEPT !.cut = TRUE, !.pending = TRUE]

Pad(p) == IF p.dynamic THEN p ELSE FillPadStatic(p)

(* dacArm from dacDisarm to dacStartDmaTransfer and the pacer.             *)
Rearmed(p) == [Disarm(p) EXCEPT !.count = 0, !.old = 0, !.dmaed = 0, !.removed = 0]

ArmedDma(p) ==
  LET q == PrepareToStop(Pad(ComputePadBlockInfo(Prime(SetupBuffer(p)))))
  IN  [q EXCEPT !.dma = TRUE, !.enabled = Chans \ Waves(p, "voltage"),
                !.pacer = p.conf.trig = "immediate"]
-----------------------------------------------------------------------------
(* The board.  The DMA takes a block at a time, cut and next descriptor as *)
(* they are when it begins the block, and keeps the FIFO full.             *)
Load(p, b) ==
  IF p.cut /\ b = FinalBlock(p)
  THEN [at |-> b * Block, end |-> p.last, toPad |-> TRUE]
  ELSE [at |-> b * Block, end |-> BlockEnd(p, b), toPad |-> FALSE]

(* One sample to the FIFO; in the pad block, at counts the pad's samples.  *)
Fetch(p, m) ==
  IF m.inPad
  THEN [m EXCEPT !.fifo = Append(@, p.pad[m.at + 1]), !.at = (@ + 1) % Len(p.pad)]
  ELSE LET q    == [m EXCEPT !.fifo = Append(@, p.cells[m.at]), !.at = @ + 1]
           next == Load(p, IF m.end = p.ring THEN 0 ELSE m.end \div Block)
       IN  IF q.at < q.end THEN q
           ELSE IF q.toPad THEN [q EXCEPT !.at = 0, !.inPad = TRUE]
           ELSE [q EXCEPT !.at = next.at, !.end = next.end, !.toPad = next.toPad]

Refill(p, m) ==
  LET f[k \in 0..FifoDepth] == IF k = 0 THEN m ELSE Fetch(p, f[k - 1])
  IN  f[FifoDepth - Len(m.fifo)]

InitBoard == [at |-> 0, end |-> 0, toPad |-> FALSE, inPad |-> FALSE, fifo |-> <<>>,
              count |-> 0, fault |-> FALSE]

BoardStart(p) ==
  LET l == Load(p, 0)
  IN  Refill(p, [InitBoard EXCEPT !.end = l.end, !.toPad = l.toPad])
-----------------------------------------------------------------------------
(* The timer callback.  readDacScanCounter extends the 16-bit register.    *)
CountWithoutCarry(p) ==  \* mutant: a register that came round is not noticed
  (p.count \div Word) * Word + board.count

DacScanCounter(p) ==
  (p.count \div Word) * Word + board.count + (IF board.count < p.old THEN Word ELSE 0)

ComputeSamplesDmaed(p) ==
  [p EXCEPT !.count = DacScanCounter(p), !.old = board.count,
            !.dmaed = @ + (DacScanCounter(p) - p.count) * p.n]

FailStopsOnly(p, error) == [Stop(p) EXCEPT !.error = error]  \* mutant: no dacDisarm

Fail(p, error) == [Stop(Disarm(p)) EXCEPT !.error = error]

Finished(p) == [Stop(Disarm(p)) EXCEPT !.dmaed = p.total]

CheckEventsAndMoveData(p) ==
  LET q == ComputeSamplesDmaed(p)
      samples == q.dmaed - p.dmaed
      r == [q EXCEPT !.triggered = @ \/ samples > 0]
  IN  IF board.fault THEN Fail(q, "PacerOverrun")
      ELSE IF p.dynamic /\ samples > p.first THEN Fail(r, "BufferUnderrun")
      ELSE IF ~p.conf.infinite /\ r.dmaed >= p.total THEN Finished(r)
      ELSE IF ~p.dynamic \/ p.pending THEN r
      ELSE IF r.removed < r.dmaed THEN Fail(r, "BufferUnderrun")
      ELSE PrepareToStop(CopyUserSamples(r, samples))

EventL(p) ==
  LET q == IF p.die \/ ~p.dma THEN p ELSE CheckEventsAndMoveData(p)
      again == ~p.die /\ q.dma
  IN  [q EXCEPT !.running = again, !.timer = again]

KickKeepsDie(p) == [p EXCEPT !.running = TRUE, !.timer = TRUE]  \* mutant: die stays set

Kick(p) == [p EXCEPT !.running = TRUE, !.die = FALSE, !.timer = TRUE]
-----------------------------------------------------------------------------
(* updates: of the board since the arm, and at the last reading;           *)
(* clean: each enabled channel was armed at the start of a transfer of the *)
(* common length, alone in its list; bad: an update gave a channel another *)
(* sample than its waveform's; null: a NULL buffer was read; spill: the    *)
(* ring was written past its end; overflow: more was copied to a buffer    *)
(* than kmalloc gave; stopped: dacStop came while the waveform was active; *)
(* late, overtook: dacArm's wait ran out, or a callback ended what it had  *)
(* begun; owner: the channel of the last dacStart, which gave              *)
(* singleWaveformSize; stop, single: stopCount and length of the arm.      *)
InitHist == [updates |-> 0, seen |-> 0, clean |-> FALSE, bad |-> FALSE, null |-> FALSE,
             spill |-> FALSE, overflow |-> FALSE, stopped |-> FALSE,
             late |-> FALSE, overtook |-> FALSE, owner |-> Digital,
             stop |-> 0, single |-> 1]

DacInit == pde = InitPde /\ board = InitBoard /\ call = "none" /\ hist = InitHist

(* Whether the arm finds what the output should be exact for.              *)
Clean(p) ==
  /\ p.conf.infinite \/ p.conf.stop > 0
  /\ \A c \in Chans \ Waves(p, "voltage") :
       /\ p.chan[c].mode = "static" /\ p.chan[c].mdl /\ p.chan[c].head = 0
       /\ p.chan[c].size = p.single

(* The sample that update u, from 0, should give to channel c.             *)
Wanted(c, u) ==
  LET held == pde.pending /\ u >= hist.stop
  IN  <<c, (IF held THEN hist.stop - 1 ELSE u) % hist.single>>

BoardUpdate ==
  LET e == InOrder(pde.enabled)
  IN  /\ pde.pacer /\ pde.dma /\ ~board.fault
      /\ hist.updates < MaxUpdates /\ hist.updates - hist.seen < MaxGap
      /\ hist' = [hist EXCEPT
                    !.updates = @ + 1,
                    !.bad = @ \/ \E i \in 1..Len(e) : board.fifo[i] # Wanted(e[i], hist.updates)]
      /\ board' = Refill(pde, [board EXCEPT
                     !.count = (@ + 1) % Word,
                     !.fifo = SubSeq(@, Len(e) + 1, Len(@))])
      /\ UNCHANGED <<pde, call>>

BoardFault ==
  /\ pde.pacer /\ board' = [board EXCEPT !.fault = TRUE]
  /\ UNCHANGED <<pde, call, hist>>

(* Without DMA nothing reads where it was.                                 *)
BoardRests == board' = IF pde'.dma THEN board ELSE InitBoard
Rested(h) ==
  IF pde'.dma THEN h
  ELSE [h EXCEPT !.updates = h.seen, !.clean = FALSE, !.bad = FALSE, !.stop = 0, !.single = 1]

DacEventL ==
  /\ pde.timer
  /\ pde' = EventL(pde)
  /\ hist' = Rested([hist EXCEPT !.seen = IF pde.die \/ ~pde.dma THEN @ ELSE hist.updates,
                                 !.overtook = @ \/ (call = "armed" /\ ~pde'.dma)])
  /\ BoardRests
  /\ UNCHANGED call
-----------------------------------------------------------------------------
(* The ioctls of one thread.                                               *)
Quiet == call = "none"

DacMode(c, m) ==
  /\ pde' = SetMode(pde, c, m)
  /\ UNCHANGED <<board, call, hist>>

DacConfigure(conf) ==
  /\ pde' = [pde EXCEPT !.conf = conf]
  /\ UNCHANGED <<board, call, hist>>

DacStart(c, len) ==
  /\ pde' = Start(pde, c, len)
  /\ hist' = [hist EXCEPT !.overflow = pde'.chan[c].room < len, !.owner = c]
  /\ UNCHANGED <<board, call>>

DacStartNoMemory(c) ==
  /\ pde.chan[c].room = 0
  /\ pde' = [pde EXCEPT !.chan[c].mdl = FALSE]
  /\ UNCHANGED <<board, call, hist>>

DacArmRefused ==
  /\ pde.active
  /\ UNCHANGED dacVars

DacArmFails ==
  /\ ~pde.active /\ SetupError(pde) # "None"
  /\ pde' = Rearmed(pde)
  /\ hist' = [hist EXCEPT !.updates = 0, !.seen = 0]
  /\ UNCHANGED <<board, call>>

DacArmBegin ==
  /\ ~pde.active /\ SetupError(pde) = "None"
  /\ LET p == Rearmed(pde) IN
     /\ pde' = ArmedDma(p)
     /\ hist' = [InitHist EXCEPT
                   !.clean = Clean(p),
                   !.null = ~pde'.dynamic /\ \E c \in Waves(p, "static") : ~p.chan[c].buf,
                   !.spill = ~pde'.dynamic /\ Copied(SetupBuffer(p)) > RingSamples,
                   !.owner = hist.owner, !.stop = p.conf.stop,
                   !.single = p.single]
  /\ board' = BoardStart(pde')
  /\ call' = "armed"

DacArmActive ==
  /\ call = "armed"
  /\ pde' = [pde EXCEPT !.active = TRUE, !.error = "None", !.die = @ \/ pde.running]
  /\ hist' = [hist EXCEPT !.null = FALSE, !.spill = FALSE]
  /\ call' = "wait"
  /\ UNCHANGED board

DacArmDone ==
  /\ call = "wait" /\ ~pde.running
  /\ pde' = Kick(pde)
  /\ call' = "none"
  /\ UNCHANGED <<board, hist>>

(* kickstartDacEvent gives up, and dacArm does not hear of it.             *)
DacArmTimeout ==
  /\ call = "wait" /\ pde.running
  /\ pde' = [pde EXCEPT !.die = TRUE]
  /\ hist' = [hist EXCEPT !.late = TRUE]
  /\ call' = "none"
  /\ UNCHANGED board

DacDisarm ==
  /\ pde' = Disarm(pde)
  /\ hist' = Rested(hist)
  /\ BoardRests
  /\ UNCHANGED call

DacStop ==
  /\ pde' = Stop(pde)
  /\ hist' = [hist EXCEPT !.stopped = @ \/ pde.active]
  /\ UNCHANGED <<board, call>>

DacSoftTrig ==
  /\ pde.active /\ pde.conf.trig = "software"
  /\ pde' = [pde EXCEPT !.pacer = TRUE]
  /\ UNCHANGED <<board, call, hist>>

DacGetStatus ==
  /\ pde' = [pde EXCEPT !.error = "None"]
  /\ UNCHANGED <<board, call, hist>>
=============================================================================
