---------------------------- MODULE ScanCounter ----------------------------
(***************************************************************************)
(* How the driver learns how many scans are in the DMA ring                *)
(* (db2kdriver/daqio.c readAcqScanCounter, adc.c computeScansAcquired).    *)
(*                                                                         *)
(* The board counts complete scans in a 16-bit register; its samples pass  *)
(* through a results FIFO, which the DMA empties two at a time, so a       *)
(* counted scan need not be in memory and an odd sample stays behind.  The *)
(* driver reads counter, status and, for an odd sample, the FIFO and both  *)
(* registers again, one after the other, while the board goes on.          *)
(*                                                                         *)
(* The timer callback reads, and so does the ioctl adcSoftTrig; on a       *)
(* uniprocessor the callback may come between any two steps of the ioctl's *)
(* reading, and no lock keeps it out of the counters both use.             *)
(***************************************************************************)
EXTENDS Integers

CONSTANTS
  ScanSize,    \* scanSize: samples of a scan
  RingSamples, \* DMAINPBUFSIZE: samples the ring holds
  FifoDepth,   \* 66: samples the results FIFO and the DMA hold back
  Word,        \* 2^16: values of the scan counter register
  Dword,       \* 2^32: values of adcTRUECurrentScanCount
  HwTrigger,   \* the trigger is one of the board's own
  Readers,     \* who reads: the timer, and the ioctl adcSoftTrig or not
  MaxScans,    \* bound: scans the board takes
  MaxGap       \* bound: scans the board takes between two readings of the timer

ScansInFifo == FifoDepth \div ScanSize

(* Between two readings the register must not come round: the callback     *)
(* reads it every 10 ms and the fastest pacer clock is 200 kHz.            *)
ASSUME CounterAssumption ==
  /\ ScanSize \in Nat \ {0} /\ FifoDepth \in Nat /\ FifoDepth > 1
  /\ RingSamples \in Nat \ {0} /\ RingSamples % 2 = 0
  /\ Word \in Nat \ {0}
  /\ Dword \in Nat /\ Dword > Word /\ Dword % Word = 0 /\ Dword % RingSamples = 0
  /\ HwTrigger \in BOOLEAN /\ MaxScans \in Nat /\ MaxGap \in Nat
  /\ MaxGap + ScansInFifo < Word
  /\ {"timer"} \subseteq Readers /\ Readers \subseteq {"timer", "ioctl"}

VARIABLES
  board,  \* samples taken and moved to the ring, scanning, triggered
  drv,    \* the driver's counters in the DEVICE_EXTENSION
  rd,     \* each reader's reading in progress: next step and its locals
  acct,   \* computeScansAcquired: adcCurrentScanCount and what it returned
  hist    \* history, read by the properties only

vars == <<board, drv, rd, acct, hist>>

Completed == board.taken \div ScanSize
InFifo    == board.taken - board.moved
Counter   == Completed % Word
Status    == [scanning |-> board.busy, more1 |-> InFifo > 1, valid |-> InFifo > 0]

(* seen: the scans complete when the timer's reading began; sum and wraps: *)
(* what computeScansAcquired returned, added up, and how often the 32-bit  *)
(* count came round; poked: the last sample put into the ring by hand;     *)
(* back: the count that a failed second look took back; lost: it did so    *)
(* over a carry; raced: the timer read while the ioctl did.                *)
Init ==
  /\ board = [taken |-> 0, moved |-> 0, busy |-> FALSE, triggered |-> ~HwTrigger]
  /\ drv = [count |-> 0, old |-> 0, trueOld |-> 0, check |-> TRUE,
            hwEvent |-> ~HwTrigger]
  /\ rd = [r \in Readers |-> [at |-> "none", c |-> 0, sample |-> 0, again |-> 0,
                              status |-> Status]]
  /\ acct = [current |-> 0, acquired |-> 0]
  /\ hist = [seen |-> 0, sum |-> 0, wraps |-> 0, back |-> 0, lost |-> FALSE,
             raced |-> FALSE,
             poked |-> [done |-> FALSE, place |-> 0, sample |-> 0, between |-> 0]]
-----------------------------------------------------------------------------
(* The board.                                                              *)
BoardTrigger ==
  /\ ~board.triggered
  /\ board' = [board EXCEPT !.triggered = TRUE]
  /\ UNCHANGED <<drv, rd, acct, hist>>

BoardBegin ==
  /\ board.triggered /\ ~board.busy
  /\ Completed < MaxScans /\ Completed - hist.seen < MaxGap
  /\ board' = [board EXCEPT !.busy = TRUE]
  /\ UNCHANGED <<drv, rd, acct, hist>>

BoardSample ==
  /\ board.busy /\ InFifo < FifoDepth
  /\ board' = [board EXCEPT !.taken = @ + 1,
                            !.busy = (board.taken + 1) % ScanSize # 0]
  /\ UNCHANGED <<drv, rd, acct, hist>>

DmaMove ==
  /\ InFifo >= 2
  /\ board' = [board EXCEPT !.moved = @ + 2]
  /\ UNCHANGED <<drv, rd, acct, hist>>
-----------------------------------------------------------------------------
(* readAcqScanCounter, a step for each register it reads.  The callback    *)
(* runs to its end before the ioctl goes on.                               *)
Runs(r) == r = "timer" \/ rd["timer"].at = "none"
At(r, step) == Runs(r) /\ rd[r].at = step
Goto(r, step) == [rd EXCEPT ![r].at = step]

ReadCounter(r) ==
  /\ At(r, "none")
  /\ rd' = [rd EXCEPT ![r].at = "status", ![r].c = Counter]
  /\ hist' = IF r = "timer"
             THEN [hist EXCEPT !.seen = Completed,
                     !.raced = @ \/ \E q \in Readers \ {r} : rd[q].at # "none"]
             ELSE hist
  /\ UNCHANGED <<board, drv, acct>>

ReadStatus(r) ==
  /\ At(r, "status")
  /\ rd' = [rd EXCEPT ![r].at = IF drv.hwEvent THEN "count" ELSE "trigger",
                      ![r].status = Status]
  /\ UNCHANGED <<board, drv, acct, hist>>

ReadTrigger(r) ==
  /\ At(r, "trigger")
  /\ IF board.triggered
     THEN /\ drv' = [drv EXCEPT !.hwEvent = TRUE]
          /\ rd' = Goto(r, "count")
     ELSE /\ drv' = [drv EXCEPT !.check = TRUE]
          /\ rd' = Goto(r, "done")
  /\ UNCHANGED <<board, acct, hist>>

JoinedDouble(low) ==  \* mutant: a carry for a value that has not changed too
  ((drv.count - (drv.count % Word)) + low + IF low <= drv.old THEN Word ELSE 0) % Dword

(* The count with its low half replaced, and a carry if that went down.    *)
Joined(low) ==
  ((drv.count - (drv.count % Word)) + low + IF low < drv.old THEN Word ELSE 0) % Dword

(* While scans may be in the FIFO: as many are taken off as it can hold,   *)
(* but never below the value before.                                       *)
Held(c) ==
  LET diff     == IF c < drv.old THEN c + Word - drv.old ELSE c - drv.old
      adjusted == IF diff > ScansInFifo THEN drv.old + diff - ScansInFifo ELSE drv.old
  IN  IF adjusted > Word - 1 THEN adjusted - Word ELSE adjusted

CheckedAlways(d, status) ==  \* mutant: adcLastFifoCheck is never cleared
  [d EXCEPT !.check = TRUE]

Checked(d, status) == [d EXCEPT !.check = status.scanning \/ status.more1]

Settled(r) ==
  /\ ~rd[r].status.scanning /\ ~rd[r].status.more1
  /\ rd[r].c = drv.trueOld /\ ~drv.check

CountHeld(r) ==
  /\ At(r, "count") /\ ~Settled(r)
  /\ LET low == Held(rd[r].c)
     IN  drv' = Checked([drv EXCEPT !.trueOld = rd[r].c, !.old = low,
                                    !.count = Joined(low)],
                        rd[r].status)
  /\ rd' = Goto(r, "done")
  /\ UNCHANGED <<board, acct, hist>>

(* Nothing is on its way: the register counts.  An odd sample that stayed  *)
(* in the FIFO is put into the ring by hand.                               *)
Odd(r) == ScanSize % 2 = 1 /\ rd[r].status.valid

CountIdle(r) ==
  /\ At(r, "count") /\ Settled(r)
  /\ IF rd[r].c = drv.old
     THEN rd' = Goto(r, "done") /\ UNCHANGED drv
     ELSE LET d == [drv EXCEPT !.count = Joined(rd[r].c), !.old = rd[r].c]
          IN  IF Odd(r)
              THEN drv' = d /\ rd' = Goto(r, "peek")
              ELSE drv' = Checked(d, rd[r].status) /\ rd' = Goto(r, "done")
  /\ UNCHANGED <<board, acct, hist>>

Peek(r) ==
  /\ At(r, "peek")
  /\ rd' = [rd EXCEPT ![r].at = "recount",
                      ![r].sample = IF InFifo > 0 THEN board.moved + 1 ELSE 0]
  /\ UNCHANGED <<board, drv, acct, hist>>

Recount(r) ==
  /\ At(r, "recount")
  /\ rd' = [rd EXCEPT ![r].at = "verify", ![r].c = Counter, ![r].again = Completed]
  /\ UNCHANGED <<board, drv, acct, hist>>

(* The sample goes to the last place of the scan counted.                  *)
Place == ((drv.count * ScanSize) % RingSamples) - 1

VerifiedByStatus(r) ==  \* mutant: the counter is not compared again
  ~Status.scanning /\ ~Status.more1 /\ Status.valid

Verified(r) ==
  ~Status.scanning /\ ~Status.more1 /\ Status.valid /\ rd[r].c = drv.trueOld

Verify(r) ==
  /\ At(r, "verify")
  /\ IF Verified(r)
     THEN /\ hist' = [hist EXCEPT !.poked =
                        [done |-> TRUE, place |-> Place, sample |-> rd[r].sample,
                         between |-> Completed - rd[r].again]]
          /\ drv' = Checked(drv, rd[r].status)
     ELSE /\ drv' = Checked([drv EXCEPT !.count = (@ - 1) % Dword], rd[r].status)
          /\ hist' = [hist EXCEPT !.back = drv.count,
                                  !.lost = @ \/ drv.count % Word = 0]
  /\ rd' = Goto(r, "done")
  /\ UNCHANGED <<board, acct>>
-----------------------------------------------------------------------------
(* The reading returns, to computeScansAcquired or to adcSoftTrig, which   *)
(* makes it the scan of its event.                                         *)
Wrapped(current) == drv.count + (Dword - 1 - current)

ComputeScansAcquired ==
  /\ At("timer", "done")
  /\ LET wrapped  == drv.count < acct.current
         acquired == IF wrapped THEN Wrapped(acct.current)
                     ELSE drv.count - acct.current
     IN  /\ acct' = [current |-> drv.count, acquired |-> acquired]
         /\ hist' = [hist EXCEPT !.sum = (@ + acquired) % Dword,
                                 !.wraps = IF wrapped THEN (@ + 1) % Dword ELSE @]
  /\ rd' = Goto("timer", "none")
  /\ UNCHANGED <<board, drv>>

AdcSoftTrig ==
  /\ "ioctl" \in Readers /\ At("ioctl", "done")
  /\ rd' = Goto("ioctl", "none")
  /\ UNCHANGED <<board, drv, acct, hist>>

Read(r) ==
  \/ ReadCounter(r) \/ ReadStatus(r) \/ ReadTrigger(r) \/ CountHeld(r) \/ CountIdle(r)
  \/ Peek(r) \/ Recount(r) \/ Verify(r)

Board == BoardTrigger \/ BoardBegin \/ BoardSample \/ DmaMove

Next == (\E r \in Readers : Read(r)) \/ ComputeScansAcquired \/ AdcSoftTrig \/ Board

Spec == Init /\ [][Next]_vars

(* The timer reads again and again, the board ends a scan it has begun and *)
(* the DMA empties the FIFO; the board need not go on.                     *)
FairSpec ==
  /\ Spec
  /\ WF_vars(Read("timer") \/ ComputeScansAcquired)
  /\ WF_vars(BoardSample) /\ WF_vars(DmaMove)
-----------------------------------------------------------------------------
(* The type of every variable.                                             *)
TypeOK ==
  /\ board \in [taken: Nat, moved: Nat, busy: BOOLEAN, triggered: BOOLEAN]
  /\ drv \in [count: 0..(Dword - 1), old: 0..(Word - 1), trueOld: 0..(Word - 1),
              check: BOOLEAN, hwEvent: BOOLEAN]
  /\ rd \in [Readers ->
       [at: {"none", "status", "trigger", "count", "peek", "recount", "verify", "done"},
        c: 0..(Word - 1), sample: Nat, again: Nat,
        status: [scanning: BOOLEAN, more1: BOOLEAN, valid: BOOLEAN]]]
  /\ acct \in [current: 0..(Dword - 1), acquired: Int]
  /\ hist \in [seen: Nat, sum: 0..(Dword - 1), wraps: 0..(Dword - 1), back: 0..(Dword - 1),
               lost: BOOLEAN, raced: BOOLEAN,
               poked: [done: BOOLEAN, place: Int, sample: Nat, between: Int]]

(* The scans a reading reports are in the ring, to the last sample, but    *)
(* for the part of a scan by which the FIFO is deeper than a whole number  *)
(* of them (adcScansInFifo is 66 / scanSize).  The last sample may be the  *)
(* one put there by hand, and is missing when the second look at it failed *)
(* and a later reading comes back to the same count, for which             *)
(* adcOldCounterValue still stands.                                        *)
ByHand  == hist.poked.done /\ hist.poked.sample = drv.count * ScanSize
Excused == ByHand \/ drv.count = hist.back

NeverAhead ==
  rd["timer"].at = "done" /\ ~hist.raced =>
    drv.count * ScanSize <= board.moved + (FifoDepth % ScanSize) + (IF Excused THEN 1 ELSE 0)

(* No carry was made up by a callback inside adcSoftTrig's reading, none   *)
(* was undone by a failed second look.                                     *)
Honest == ~hist.raced /\ ~hist.lost

(* A sample put into the ring by hand is the one that belongs there,       *)
(* unless two whole scans pass between the two registers of the second     *)
(* look.  Place is -1 for a scan that ends with the ring, but then the     *)
(* number of samples is even and none has stayed behind.                   *)
PokeInPlace ==
  hist.poked.done /\ hist.poked.between < 2 /\ Honest =>
    /\ hist.poked.place \in 0..(RingSamples - 1)
    /\ hist.poked.place = (hist.poked.sample - 1) % RingSamples

(* What a reading reports is in the ring, each sample in its place.        *)
CountIsInRing == NeverAhead /\ PokeInPlace

(* When the board has stopped, the readings come to report every scan,     *)
(* unless a failed second look went back over a carry.                     *)
EventuallyExact ==
  <>[](drv.count = Completed % Dword \/ hist.lost)

(* What computeScansAcquired returns adds up to the reading, less one scan *)
(* for each time the 32-bit count comes round.                             *)
WrapLosesOne == (hist.sum + hist.wraps) % Dword = acct.current

(* But for those two cases a callback never finds more scans than the      *)
(* board has taken, nor do all callbacks together until the 32-bit count   *)
(* has come round, however the 16-bit register comes round and the two     *)
(* kinds of readings follow one another.                                   *)
AcquiredWereTaken ==
  Honest => /\ acct.acquired <= Completed
            /\ Completed < Dword => hist.sum <= Completed

(* DerrOverrun (include/daqx.h), which adcCheckFatalErrors derives from    *)
(* the number of scans a callback finds, tells the truth: a callback never *)
(* finds more scans than the board has taken.                              *)
NoFalseOverrun == acct.acquired <= Completed
=============================================================================
