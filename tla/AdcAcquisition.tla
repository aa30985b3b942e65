--------------------------- MODULE AdcAcquisition ---------------------------
(***************************************************************************)
(* The analog-input engine of the driver (db2kdriver/adc.c): the ioctls    *)
(* adcConfigure, adcArm, adcDisarm, adcStart, adcStop, adcSoftTrig and     *)
(* adcGetStatus of one user program, the timer callback adcEventL that     *)
(* looks for the trigger and stop events and moves scans from the DMA ring *)
(* to the user's buffer, and the board that fills the ring.                *)
(*                                                                         *)
(* Granularity: a uniprocessor kernel.  The timer callback preempts an     *)
(* ioctl between any two of its steps and runs to completion, so it is one *)
(* action; an ioctl has a step for each stretch of code between the points *)
(* where a callback changes its outcome.  The unit of data is a scan: the  *)
(* ring holds RingScans of them and a memory cell is the number of the     *)
(* scan whose samples it holds.  What the driver keeps in its              *)
(* DEVICE_EXTENSION is the record pde, and each C function that takes pde  *)
(* is an operator from a record to a record.                               *)
(***************************************************************************)
EXTENDS Integers

CONSTANTS
  RingScans,  \* maxDmaInpBufScans: scans the DMA ring holds
  InBufScans, \* scans that fit in in_buf, the buffer mapped to the user
  ArgScans,   \* scans of in_buf that db2k_ioctl overlays with its argument
  FifoScans,  \* adcScansInFifo: how far a counter reading may lag behind
  Configs,    \* what the program asks of adcConfigure
  Transfers,  \* what the program asks of adcStart: size and cyclic
  Signal,     \* the scans whose samples satisfy the level comparison
  MaxScans,   \* bound: scans the board takes in one acquisition
  MaxArms,    \* bound: acquisitions armed
  MaxLatency  \* bound: scans the board takes between two timer callbacks

Sources     == {"Immediate", "Software", "Hardware", "Level"}
StopSources == {"ScanCount", "Software", "Level", "Infinite"}

ASSUME SizesAssumption ==
  /\ RingScans \in Nat \ {0} /\ InBufScans \in Nat \ {0}
  /\ ArgScans \in 0..InBufScans /\ FifoScans \in Nat
  /\ MaxScans \in Nat /\ MaxArms \in Nat /\ MaxLatency \in Nat

(* adcTestConfiguration: a pre-trigger count only where the trigger is     *)
(* looked for in the data, a post-trigger count of one scan at least.      *)
ASSUME RequestsAssumption ==
  /\ Signal \subseteq Nat
  /\ Configs \subseteq [source: Sources, stop: StopSources, pre: Nat, post: Nat]
  /\ \A c \in Configs : /\ c.source \in {"Immediate", "Hardware"} => c.pre = 0
                        /\ c.post = 0 => c.stop = "Infinite"
  /\ Transfers \subseteq [size: 1..InBufScans, cyclic: BOOLEAN]

VARIABLES
  pde,     \* the driver's DEVICE_EXTENSION, as the adc code uses it
  scans,   \* scans the board has put in the ring since the last arm
  fault,   \* an error bit of the board's status register is set
  call,    \* the program's ioctl: the step that comes next and its locals
  hist     \* history, read by the properties only

vars == <<pde, scans, fault, call, hist>>

Cells == 0..(InBufScans - 1)
Arg   == -1   \* a cell of in_buf that holds a piece of an ioctl argument
Empty == 0    \* a cell that holds no scan
Idle  == [at |-> "none", n |-> 0, full |-> FALSE, event |-> "TRIGGER"]

AtLeast(a, b) == IF a >= b THEN a ELSE b

(* The last of 1..n that lies at offset slot of a cycle; below 1 if none.  *)
LastIn(n, slot, cycle) == n - ((n - 1 - slot) % cycle)
-----------------------------------------------------------------------------
(* Status flags, error and configuration; trig[]; the scan counters; the   *)
(* transfer to in_buf; pacer, DMA and timer; at the end what the           *)
(* properties need to know: the first scan the program is owed, the scans  *)
(* delivered and thrown away since the arm, whether a delivered scan had   *)
(* been overwritten in the ring, whether a DWORD length went below zero or *)
(* was computed from a NULL userInpBuf (what follows is undefined).        *)
InitPde ==
  [acqActive |-> FALSE, acqTriggered |-> FALSE, transferActive |-> FALSE,
   error |-> "None", configured |-> FALSE,
   source |-> "Immediate", stop |-> "ScanCount", pre |-> 0, post |-> 0,
   event |-> "TRIGGER",
   trigCount |-> 0, trigScan |-> 0, trigSw |-> FALSE, trigHw |-> FALSE,
   stopCount |-> 0, stopScan |-> 0, stopSw |-> FALSE,
   read |-> 0, current |-> 0, last |-> 0, lastPass |-> 0,
   toMove |-> 0, inUser |-> 0, head |-> 0, search |-> 0,
   buf |-> [p \in Cells |-> Empty],
   size |-> 1, cyclic |-> FALSE, userHead |-> 0, userOpen |-> FALSE,
   pacer |-> "off", dma |-> FALSE, running |-> FALSE, die |-> TRUE,
   first |-> 1, sent |-> 0, dropped |-> 0, stale |-> FALSE, wild |-> FALSE]

(* The ring cell of a slot holds the last scan the board wrote there.      *)
RingCell(slot) == AtLeast(Empty, LastIn(scans, slot, RingScans))

(* The scan the program is owed next, after those it already has.          *)
NextWanted(d) == d.first + d.sent

AdcStop(d) ==
  [d EXCEPT !.transferActive = FALSE, !.die = TRUE, !.userOpen = FALSE]

DisarmKeepsFlag(d) ==  \* mutant: DaafAcqActive is not cleared
  [d EXCEPT !.pacer = "off", !.dma = FALSE, !.acqTriggered = FALSE]

AdcDisarmAcquisition(d) ==
  [d EXCEPT !.pacer = "off", !.dma = FALSE,
            !.acqActive = FALSE, !.acqTriggered = FALSE]

AdcDisarm(d) ==
  [AdcDisarmAcquisition(d) EXCEPT !.dropped = @ + d.toMove, !.toMove = 0]

(* readAcqScanCounter, by what module ScanCounter shows of it: a reading   *)
(* never passes the scans in the ring and lags them by lag at most.  With  *)
(* a hardware trigger it stands still until the board reports the trigger. *)
ReadAcqScanCounter(d, lag) ==
  LET waiting == d.event = "TRIGGER" /\ d.source = "Hardware" /\ ~d.trigHw
  IN  IF waiting /\ d.pacer # "on"
      THEN d
      ELSE [d EXCEPT !.read = AtLeast(@, scans - lag), !.trigHw = @ \/ waiting]

ComputeScansAcquired(d, lag) ==
  IF d.event = "POSTSTOP"
  THEN [d EXCEPT !.last = d.current, !.current = d.stopScan]
  ELSE LET r == ReadAcqScanCounter(d, lag)
       IN  [r EXCEPT !.last = d.current, !.current = r.read]

(* memCopyToUserBuf and repmov: n cells of the ring, from dmaInpBufHead,   *)
(* to in_buf, from userInpBufHead, around the end of either (a head that   *)
(* stands at the end is the same as one at the start).                     *)
MemCopy(d, n) ==
  LET lands(p) == LastIn(n, p - d.userHead, d.size)
  IN  [d EXCEPT
         !.buf = [p \in Cells |->
                    IF p >= d.size \/ lands(p) < 1 THEN d.buf[p]
                    ELSE RingCell((d.head + lands(p) - 1) % RingScans)],
         !.stale = @ \/ (n > 0 /\ NextWanted(d) + RingScans <= scans)]

AdvanceNoWrap(d, n) ==  \* mutant: dmaInpBufHead not wrapped at the end of the ring
  [d EXCEPT !.head = @ + n, !.userHead = (@ + n) % d.size,
            !.inUser = @ + n, !.sent = @ + n]

Advance(d, n) ==
  [d EXCEPT !.head = (@ + n) % RingScans, !.userHead = (@ + n) % d.size,
            !.inUser = @ + n, !.sent = @ + n]

(* What copyNewScans copies of n scans, and whether that fills the buffer. *)
Fills(d, n) == ~d.cyclic /\ d.inUser + n > d.size
Room(d, n)  == IF Fills(d, n) THEN d.size - d.inUser ELSE n

CopyForgetsBacklog(d, n) ==  \* mutant: = for += in scansToMoveToUserBuf
  LET m    == Room(d, n)
      kept == IF Fills(d, n) THEN [d EXCEPT !.toMove = n - m] ELSE d
      done == Advance(MemCopy(kept, m), m)
  IN  IF n = 0 THEN d
      ELSE IF ~d.transferActive THEN [d EXCEPT !.toMove = n]
      ELSE IF Fills(d, n) THEN AdcStop(done) ELSE done

(* memCopyToUserBuf computes its lengths from userInpBuf, which adcStop    *)
(* sets to NULL.                                                           *)
OutOfBounds(d, m) == m < 0 \/ (m > 0 /\ ~d.userOpen)

CopyNewScans(d, n) ==
  LET m    == Room(d, n)
      kept == IF Fills(d, n) THEN [d EXCEPT !.toMove = n - m] ELSE d
      done == Advance(MemCopy(kept, m), m)
  IN  IF n < 0 \/ (d.transferActive /\ OutOfBounds(d, m)) THEN [d EXCEPT !.wild = TRUE]
      ELSE IF n = 0 THEN d
      ELSE IF ~d.transferActive THEN [d EXCEPT !.toMove = @ + n]
      ELSE IF Fills(d, n) THEN AdcStop(done) ELSE done
-----------------------------------------------------------------------------
OverrunOfPass(d, acquired) ==  \* mutant: the scans that wait are not counted
  acquired + d.lastPass > RingScans

OverrunLate(d, acquired) ==  \* mutant: a limit of twice the ring
  acquired + d.lastPass + d.toMove > 2 * RingScans

(* The timer callback, from the fatal errors to the stop event.            *)
Overrun(d, acquired) == acquired + d.lastPass + d.toMove > RingScans

FatalWithoutDisarm(d, acquired) ==  \* mutant: a fatal error only stops the transfer
  IF fault THEN AdcStop([d EXCEPT !.error = "Hardware"])
  ELSE IF Overrun(d, acquired)
       THEN [AdcStop(d) EXCEPT !.error = "Overrun"]
       ELSE [d EXCEPT !.lastPass = acquired]

AdcCheckFatalErrors(d, acquired) ==
  IF fault THEN AdcStop(AdcDisarm([d EXCEPT !.error = "Hardware"]))
  ELSE IF Overrun(d, acquired)
       THEN [AdcStop(AdcDisarm(d)) EXCEPT !.error = "Overrun"]
       ELSE [d EXCEPT !.lastPass = acquired]

(* The first of the last n scans whose samples, read at eventSearchPtr,    *)
(* satisfy the level comparison, by its offset; n if there is none.        *)
LevelOffset(d, n) ==
  LET hit(i) == RingCell((d.search + i) % RingScans) \in Signal
  IN  CHOOSE i \in 0..n : (i = n \/ hit(i)) /\ \A j \in 0..(i - 1) : ~hit(j)

SearchRestarts(d, n) == d  \* mutant: eventSearchPtr is not kept over callbacks

Searched(d, n) == [d EXCEPT !.search = (@ + LevelOffset(d, n)) % RingScans]

(* checkForEvent for the trigger, past the pre-trigger count: the record   *)
(* with the trigger scan, and whether the event occurred.                  *)
CheckForTrigger(d, acquired) ==
  LET n == acquired - d.trigCount
      e == [d EXCEPT !.trigCount = 0]
      at(s) == [occurred |-> TRUE, d |-> [e EXCEPT !.trigScan = s]]
  IN  IF acquired <= d.trigCount
      THEN [occurred |-> FALSE, d |-> [d EXCEPT !.trigCount = @ - acquired]]
      ELSE IF d.trigSw THEN at(AtLeast(1, d.trigScan))
      ELSE IF d.source = "Immediate" \/ (d.source = "Hardware" /\ d.trigHw) THEN at(1)
      ELSE IF d.source = "Level"
      THEN [occurred |-> LevelOffset(d, n) < n,
            d |-> [Searched(e, n) EXCEPT !.trigScan =
                     IF LevelOffset(d, n) < n
                     THEN d.current - n + LevelOffset(d, n) + 1 ELSE @]]
      ELSE [occurred |-> FALSE, d |-> e]

StopLate(d, acquired) ==  \* mutant: <= for < in the post-trigger count
  LET n == acquired - d.stopCount
      e == [d EXCEPT !.stopCount = 0]
  IN  IF acquired <= d.stopCount
      THEN [occurred |-> FALSE, d |-> [d EXCEPT !.stopCount = @ - acquired]]
      ELSE [occurred |-> d.stop = "ScanCount", d |-> [e EXCEPT !.stopScan = d.current - n + 1]]

StopCountKept(d, acquired) ==  \* mutant: the post-trigger count is not used up
  IF acquired < d.stopCount
  THEN [occurred |-> FALSE, d |-> d]
  ELSE [occurred |-> d.stop = "ScanCount",
        d |-> [d EXCEPT !.stopCount = 0, !.stopScan = d.current - acquired + d.stopCount]]

CheckForStop(d, acquired) ==
  LET n == acquired - d.stopCount
      e == [d EXCEPT !.stopCount = 0]
  IN  IF acquired < d.stopCount
      THEN [occurred |-> FALSE, d |-> [d EXCEPT !.stopCount = @ - acquired]]
      ELSE IF d.stop = "ScanCount"
      THEN [occurred |-> TRUE, d |-> [e EXCEPT !.stopScan = d.current - n]]
      ELSE IF d.stop = "Level"
      THEN [occurred |-> LevelOffset(d, n) < n,
            d |-> [Searched(e, n) EXCEPT !.stopScan =
                     IF LevelOffset(d, n) < n
                     THEN d.current - n + LevelOffset(d, n) + 1 ELSE @]]
      ELSE [occurred |-> d.stop = "Software" /\ d.stopSw, d |-> e]

SetupStopEvent(d) ==
  [d EXCEPT !.event = "STOP", !.acqTriggered = TRUE,
            !.search = (d.trigScan + d.stopCount - 1) % RingScans]

SetupPostStopEvent(d) == [d EXCEPT !.event = "POSTSTOP", !.dma = FALSE]

RewindOneShort(d) ==  \* mutant: no - 1 in preTrigSize
  LET rewound == [d EXCEPT !.head = (d.trigScan - d.pre) % RingScans,
                           !.first = d.trigScan - d.pre]
  IN  [SetupStopEvent(CopyNewScans(rewound, d.pre)) EXCEPT !.last = d.trigScan - 1]

OnTrigger(d) ==
  LET rewound == [d EXCEPT !.head = (d.trigScan - d.pre - 1) % RingScans,
                           !.first = d.trigScan - d.pre]
  IN  [SetupStopEvent(CopyNewScans(rewound, d.pre)) EXCEPT !.last = d.trigScan - 1]

StopFromCurrent(d) ==  \* mutant: adcCurrentScanCount is not taken back
  LET e == ComputeScansAcquired(SetupPostStopEvent(d), 0)
  IN  AdcStop(AdcDisarmAcquisition(CopyNewScans(e, e.current - e.last)))

OnStop(d) ==
  LET e == ComputeScansAcquired([SetupPostStopEvent(d) EXCEPT !.current = d.last], 0)
  IN  AdcStop(AdcDisarmAcquisition(CopyNewScans(e, e.current - e.last)))

StopPhase(d, acquired) ==
  LET c == CheckForStop(d, acquired)
  IN  IF acquired = 0 THEN d
      ELSE IF c.occurred THEN OnStop(c.d) ELSE CopyNewScans(c.d, acquired)

TriggerPhase(d, acquired) ==
  LET c == CheckForTrigger(d, acquired)
  IN  IF acquired = 0 THEN d
      ELSE IF c.occurred
      THEN StopPhase(OnTrigger(c.d), c.d.current - c.d.trigScan + 1)
      ELSE c.d

CheckEventsAndMoveData(d, lag) ==
  LET e == ComputeScansAcquired(d, lag)
      acquired == e.current - e.last
      f == AdcCheckFatalErrors(e, acquired)
  IN  IF fault \/ Overrun(e, acquired) THEN f
      ELSE IF f.event = "TRIGGER" THEN TriggerPhase(f, acquired)
      ELSE StopPhase(f, acquired)

(* adcEventL.  A callback that lands inside adcStart or adcSoftTrig, where *)
(* the program's step and its own do not commute, leaves a mark in hist.   *)
Harmful(d) ==
  \/ call.at = "startOpen" /\ ~d.userOpen
  \/ call.at = "startTake" /\ pde.toMove > 0 /\ ~d.transferActive
  \/ call.at = "startAdvance" /\ (d.sent # pde.sent \/ ~d.transferActive)
  \/ call.at = "trigFlag" /\ d.current # pde.current

AdcEventL ==
  /\ pde.running /\ ~pde.wild
  /\ IF pde.die \/ ~pde.dma
     THEN pde' = [pde EXCEPT !.running = FALSE]
     ELSE \E lag \in 0..FifoScans :
            LET d == CheckEventsAndMoveData(pde, lag)
            IN  pde' = [d EXCEPT !.running = d.dma]
  /\ hist' = [hist EXCEPT !.raced = @ \/ Harmful(pde')]
  /\ UNCHANGED <<scans, fault, call>>
-----------------------------------------------------------------------------
(* The ioctls.  db2k_ioctl copies the argument into the head of in_buf.    *)
WithArg(d) == [d EXCEPT !.buf = [p \in Cells |-> IF p < ArgScans THEN Arg ELSE @[p]]]

Begins == call.at = "none" /\ ~pde.wild
OneStep(d) == pde' = d /\ UNCHANGED <<scans, fault, call, hist>>

(* adcConfigure clears scanConfiguredOK before it looks at the state; a    *)
(* request that fails in adcTestConfiguration has already replaced the     *)
(* trigger events.                                                         *)
AdcConfigure ==
  /\ Begins
  /\ \/ pde.acqActive /\ OneStep([WithArg(pde) EXCEPT !.configured = FALSE])
     \/ \E c \in Configs :
          /\ ~pde.acqActive
          /\ \/ OneStep([WithArg(pde) EXCEPT !.configured = FALSE,
                           !.source = c.source, !.stop = c.stop])
             \/ OneStep([WithArg(pde) EXCEPT !.configured = TRUE,
                           !.source = c.source, !.stop = c.stop,
                           !.pre = c.pre, !.post = c.post,
                           !.trigCount = c.pre, !.stopCount = c.post])

AdcArmBegin ==
  /\ Begins /\ hist.arms < MaxArms
  /\ IF pde.acqActive \/ ~pde.configured
     THEN OneStep(WithArg(pde))
     ELSE /\ pde' = [AdcDisarm(WithArg(pde)) EXCEPT !.die = @ \/ pde.running]
          /\ call' = [Idle EXCEPT !.at = "armWait"]
          /\ UNCHANGED <<scans, fault, hist>>

AdcArmTimeout ==
  /\ call.at = "armWait" /\ pde.running
  /\ call' = Idle
  /\ UNCHANGED <<pde, scans, fault, hist>>

(* adcArm once the old timer is gone: the counters, setupStartEvent.       *)
Rearmed(d) ==
  [d EXCEPT !.event = "TRIGGER", !.trigCount = d.pre, !.stopCount = d.post,
            !.trigSw = FALSE, !.trigHw = FALSE, !.stopSw = FALSE,
            !.read = 0, !.current = 0, !.last = 0, !.lastPass = 0,
            !.toMove = 0, !.inUser = 0, !.head = 0, !.search = d.pre % RingScans,
            !.sent = 0, !.dropped = 0, !.stale = FALSE]

(* The board's pipeline does not fill or reports an error, or fills just   *)
(* in the last round of the wait: adcDisarm and DerrInitFailure.           *)
AdcArmInitFailure ==
  /\ call.at = "armWait" /\ ~pde.running
  /\ pde' = AdcDisarm(Rearmed(pde))
  /\ call' = Idle
  /\ scans' = 0 /\ fault' = FALSE
  /\ UNCHANGED hist

(* The wait loop runs out with timeoutCount at its wrapped value, which    *)
(* the test for 0 after it does not see: the pipeline need not be filled.  *)
AdcArmDone ==
  /\ call.at = "armWait" /\ ~pde.running
  /\ pde' = [Rearmed(pde) EXCEPT
               !.pacer = IF pde.source = "Hardware" THEN "waiting" ELSE "on",
               !.dma = TRUE, !.acqActive = TRUE, !.error = "None",
               !.running = TRUE, !.die = FALSE]
  /\ call' = Idle
  /\ scans' = 0 /\ fault' = FALSE
  /\ hist' = [hist EXCEPT !.arms = @ + 1,
                !.armed = [source |-> pde.source, stop |-> pde.stop,
                           pre |-> pde.pre, post |-> pde.post]]

AdcDisarmCall == Begins /\ OneStep(AdcDisarm(WithArg(pde)))

AdcStopCall == Begins /\ OneStep(AdcStop(WithArg(pde)))

AdcGetStatus == Begins /\ OneStep([WithArg(pde) EXCEPT !.error = "None"])

AdcStartBegin ==
  /\ Begins
  /\ IF pde.transferActive \/ ~pde.configured
     THEN OneStep(WithArg(pde))
     ELSE /\ pde' = [WithArg(pde) EXCEPT !.userOpen = TRUE]
          /\ call' = [Idle EXCEPT !.at = "startOpen"]
          /\ UNCHANGED <<scans, fault, hist>>

(* adcStart sets DaafTransferActive, whether or not userInpBuf still is    *)
(* what it has set it to; no callback reads the other fields before.       *)
AdcStartActive ==
  /\ call.at = "startOpen"
  /\ \E t \in Transfers :
       pde' = [pde EXCEPT !.size = t.size, !.cyclic = t.cyclic, !.userHead = 0,
                 !.inUser = 0, !.transferActive = TRUE]
  /\ call' = [call EXCEPT !.at = "startTake"]
  /\ UNCHANGED <<scans, fault, hist>>

AdcStartTake ==
  /\ call.at = "startTake"
  /\ IF pde.toMove = 0
     THEN call' = Idle /\ UNCHANGED pde
     ELSE /\ call' = [call EXCEPT !.at = "startCopy", !.n = pde.toMove]
          /\ pde' = [pde EXCEPT !.toMove = 0]
  /\ UNCHANGED <<scans, fault, hist>>

(* copyNewScans called by adcStart: a callback may run between its memcpy  *)
(* and the moves of the two heads, or before the memcpy, where an adcStop  *)
(* in it takes userInpBuf away.                                            *)
AdcStartCopy ==
  /\ call.at = "startCopy"
  /\ LET n == call.n
         m == Room(pde, n)
     IN  IF ~pde.transferActive
         THEN /\ pde' = [pde EXCEPT !.toMove = @ + n]
              /\ call' = [call EXCEPT !.at = "startEnd", !.n = 0]
         ELSE /\ pde' = IF OutOfBounds(pde, m) THEN [pde EXCEPT !.wild = TRUE]
                        ELSE MemCopy(IF Fills(pde, n) THEN [pde EXCEPT !.toMove = n - m]
                                     ELSE pde, m)
              /\ call' = [call EXCEPT !.at = "startAdvance", !.n = m,
                            !.full = Fills(pde, n)]
  /\ UNCHANGED <<scans, fault, hist>>

AdcStartAdvance ==
  /\ call.at = "startAdvance" /\ ~pde.wild
  /\ LET d == Advance(pde, call.n)
     IN  \/ pde' = IF call.full THEN AdcStop(d) ELSE d
         \/ OutOfBounds(pde, call.n) /\ pde' = [pde EXCEPT !.wild = TRUE]
  /\ call' = [call EXCEPT !.at = "startEnd", !.n = 0]
  /\ UNCHANGED <<scans, fault, hist>>

AdcStartEnd ==
  /\ call.at = "startEnd"
  /\ pde' = IF pde.acqActive THEN pde ELSE AdcStop(pde)
  /\ call' = Idle
  /\ UNCHANGED <<scans, fault, hist>>

(* adcSoftTrig in two steps, the event scan and then the flag; each reads  *)
(* eventExpected anew, or the compiler keeps the first reading.  After the *)
(* stop event it indexes trig[2], one past the end: on the 64-bit build    *)
(* count is the upper half of userInpBuf, null after adcStop, and the two  *)
(* stores fall on userInpBufSize and userInpBufHead, which adcStart sets   *)
(* before they are used; the counter is read.                              *)
CountOf(d) == IF d.event = "TRIGGER" THEN d.trigCount
              ELSE IF d.event = "STOP" THEN d.stopCount
              ELSE IF d.userOpen THEN 1 ELSE 0

AdcSoftTrigScan ==
  /\ Begins
  /\ IF CountOf(pde) # 0
     THEN OneStep(WithArg(pde))
     ELSE /\ \E lag \in 0..FifoScans :
               LET r == ReadAcqScanCounter(WithArg(pde), lag)
               IN  pde' = [r EXCEPT
                     !.trigScan = IF r.event = "TRIGGER" THEN r.read ELSE @,
                     !.stopScan = IF r.event = "STOP" THEN r.read ELSE @]
          /\ call' = [Idle EXCEPT !.at = "trigFlag", !.event = pde.event]
          /\ UNCHANGED <<scans, fault, hist>>

AdcSoftTrigFlag ==
  /\ call.at = "trigFlag"
  /\ \E e \in {call.event, pde.event} :
       pde' = [pde EXCEPT !.trigSw = @ \/ e = "TRIGGER", !.stopSw = @ \/ e = "STOP"]
  /\ call' = Idle
  /\ UNCHANGED <<scans, fault, hist>>
-----------------------------------------------------------------------------
(* The board: scans into the ring, the hardware trigger, an error bit.     *)
BoardScan ==
  /\ pde.pacer = "on" /\ scans < MaxScans
  /\ pde.running => scans - pde.current < MaxLatency
  /\ scans' = scans + 1
  /\ UNCHANGED <<pde, fault, call, hist>>

BoardTrigger ==
  /\ pde.pacer = "waiting"
  /\ pde' = [pde EXCEPT !.pacer = "on"]
  /\ UNCHANGED <<scans, fault, call, hist>>

BoardFault ==
  /\ pde.pacer = "on" /\ ~fault
  /\ fault' = TRUE
  /\ UNCHANGED <<pde, scans, call, hist>>
-----------------------------------------------------------------------------
Init ==
  /\ pde = InitPde
  /\ scans = 0 /\ fault = FALSE
  /\ call = Idle
  /\ hist = [raced |-> FALSE, arms |-> 0,
             armed |-> [source |-> "Immediate", stop |-> "ScanCount",
                        pre |-> 0, post |-> 0]]

Program ==
  \/ AdcConfigure \/ AdcArmBegin \/ AdcDisarmCall \/ AdcStopCall
  \/ AdcGetStatus \/ AdcStartBegin \/ AdcSoftTrigScan

Continue ==
  \/ AdcArmTimeout \/ AdcArmInitFailure \/ AdcArmDone
  \/ AdcStartActive \/ AdcStartTake \/ AdcStartCopy \/ AdcStartAdvance
  \/ AdcStartEnd \/ AdcSoftTrigFlag

(* A copy out of bounds ends what the model says of the program.           *)
Undefined == pde.wild /\ UNCHANGED vars

Board == BoardScan \/ BoardTrigger \/ BoardFault

Next == AdcEventL \/ Program \/ Continue \/ Board \/ Undefined

Spec == Init /\ [][Next]_vars
-----------------------------------------------------------------------------
Steps == {"none", "armWait", "startOpen", "startTake", "startCopy",
          "startAdvance", "startEnd", "trigFlag"}
Events == {"TRIGGER", "STOP", "POSTSTOP"}

Flags == {"acqActive", "acqTriggered", "transferActive", "configured",
          "trigSw", "trigHw", "stopSw", "cyclic", "userOpen", "dma", "running",
          "die", "stale", "wild"}
Counts == {"trigCount", "trigScan", "stopCount", "stopScan", "read", "current",
           "last", "lastPass", "toMove", "inUser", "first", "sent", "dropped"}
Others == {"error", "source", "stop", "pre", "post", "event", "head", "search",
           "buf", "size", "userHead", "pacer"}

IsPde(d) ==
  /\ DOMAIN d = Flags \cup Counts \cup Others
  /\ \A f \in Flags : d[f] \in BOOLEAN
  /\ \A f \in Counts : d[f] \in Int
  /\ d.error \in {"None", "Hardware", "Overrun"}
  /\ d.source \in Sources /\ d.stop \in StopSources
  /\ d.pre \in Nat /\ d.post \in Nat /\ d.event \in Events
  /\ d.head \in 0..(RingScans - 1) /\ d.search \in 0..(RingScans - 1)
  /\ d.buf \in [Cells -> Nat \cup {Arg}]
  /\ d.size \in 1..InBufScans /\ d.userHead \in Cells
  /\ d.pacer \in {"off", "waiting", "on"}

(* The type of every variable.                                             *)
TypeOK ==
  /\ IsPde(pde)
  /\ scans \in Nat /\ fault \in BOOLEAN
  /\ call \in [at: Steps, n: Int, full: BOOLEAN, event: Events]
  /\ hist \in [raced: BOOLEAN, arms: Nat,
               armed: [source: Sources, stop: StopSources, pre: Nat, post: Nat]]

Sound == ~hist.raced /\ ~pde.wild
Counted == (pde.acqActive /\ pde.event = "STOP") \/ pde.event = "POSTSTOP"

(* Every scan from the first one owed to the last one the driver has       *)
(* counted is delivered, waits in the ring, was thrown away by adcDisarm   *)
(* or is in the hands of adcStart: copyNewScans loses and repeats none.    *)
NothingLost ==
  Sound /\ Counted =>
    pde.first + pde.sent + pde.toMove + pde.dropped + call.n = pde.current + 1

(* An acquisition that stops by itself on a scan count hands over exactly  *)
(* the scans asked for, those before the trigger included.                 *)
ExactCount ==
  Sound /\ pde.event = "POSTSTOP" /\ hist.armed.stop = "ScanCount" =>
    pde.sent + pde.toMove + pde.dropped + call.n = hist.armed.pre + hist.armed.post

(* A transfer that is not cyclic never counts more scans than its buffer   *)
(* holds (the count adcGetStatus reports).                                 *)
NoUserOverflow == Sound /\ ~pde.cyclic => pde.inUser <= pde.size

(* What is delivered is what is owed, and what there is room for.          *)
Conservation == NothingLost /\ ExactCount /\ NoUserOverflow

(* The last scans delivered stand in in_buf in order before userInpBufHead *)
(* (copyNewScans, memCopyToUserBuf), unless an ioctl argument has been     *)
(* copied over the head of the buffer.                                     *)
ContentInOrder ==
  Sound /\ ~pde.stale /\ call.at # "startAdvance" =>
    \A j \in 1..pde.inUser :
      LET p == (pde.userHead - j) % pde.size
          k == pde.first + pde.sent - j
      IN  j <= pde.size /\ k >= 1 =>
            \/ pde.buf[p] = k
            \/ p < ArgScans /\ pde.buf[p] = Arg

(* The scans owed before the trigger were taken: a trigger never comes     *)
(* before the pre-trigger count has passed (checkForEvent), but for one    *)
(* scan, and that only when adcSoftTrig finds the count just used up.      *)
PretriggerExists ==
  Sound /\ Counted => pde.first >= (IF pde.trigSw THEN 0 ELSE 1)

(* The level trigger of checkForEvent is the first scan past the           *)
(* pre-trigger count that satisfies the comparison, however the scans are  *)
(* spread over callbacks.                                                  *)
TriggerIsFirst ==
  Sound /\ pde.event # "TRIGGER" /\ hist.armed.source = "Level" /\ ~pde.trigSw =>
    /\ pde.trigScan \in Signal /\ pde.trigScan > hist.armed.pre
    /\ \A s \in Signal : s > hist.armed.pre => s >= pde.trigScan

(* The level stop is the first scan past the post-trigger count that       *)
(* satisfies it.                                                           *)
StopIsFirst ==
  Sound /\ pde.event = "POSTSTOP" /\ hist.armed.stop = "Level" =>
    /\ pde.stopScan \in Signal /\ pde.stopScan >= pde.trigScan + hist.armed.post
    /\ \A s \in Signal : s >= pde.trigScan + hist.armed.post => s >= pde.stopScan

(* No callback searches scans that the board has overwritten: either the   *)
(* readings of the counter do not lag and adcCheckFatalErrors sees that    *)
(* the ring was lapped, or no callback comes a whole ring late.            *)
Unlapped == FifoScans = 0 \/ MaxLatency <= RingScans

(* A trigger and a stop are where the request puts them in the data.       *)
EventsExact == (Unlapped => TriggerIsFirst /\ StopIsFirst) /\ PretriggerExists

(* Scans that the check of a callback does not count: the pre-trigger      *)
(* scans of OnTrigger, and the trigger scan when adcSoftTrig put it on one *)
(* that had been counted.                                                  *)
Uncounted(d) == hist.armed.pre + (IF d.trigSw THEN 1 ELSE 0)

(* Scans waiting in the ring or in the hands of adcStart never outnumber   *)
(* it, but for those uncounted: adcCheckFatalErrors ends an acquisition    *)
(* whose program does not start a transfer.  Only the callback that fills  *)
(* the buffer under adcStart may leave a second ring full of them, and     *)
(* that callback is the last one.                                          *)
BacklogBounded ==
  Sound => pde.toMove + call.n <=
             (IF pde.die THEN 2 * RingScans ELSE RingScans) + Uncounted(pde)

(* A fatal error (adcCheckFatalErrors) leaves nothing running: while it is *)
(* unread the acquisition is disarmed, pacer and DMA are off.              *)
ErrorQuiesces ==
  pde.error # "None" => ~pde.acqActive /\ ~pde.dma /\ pde.pacer = "off"

(* An armed acquisition is never left without its timer, except by adcStop *)
(* (which copyNewScans also calls when the user's buffer is full).         *)
OnlyStopKillsTimer == pde.acqActive => pde.dma /\ (pde.running \/ pde.die)

(* Of the scans that a callback delivers, however late it comes, at most   *)
(* so many have been overwritten by the board before as adcCheckFatalErrors *)
(* cannot see: those by which its reading of the counter lags and those    *)
(* not counted (uncounted ones of a trigger, those in adcStart's hands),   *)
(* less scansAcquiredLastPass, which it counts twice.  With exact readings *)
(* and nothing uncounted there are none.                                   *)
TimerCopiesIntact ==
  [][pde'.stale /\ ~pde.stale /\ ~hist'.raced /\ call' = call =>
       LET unseen == FifoScans + call.n
                     + (IF pde.event = "TRIGGER" THEN Uncounted(pde) ELSE 0)
           lapped == scans - RingScans - (pde'.first + pde.sent) + 1
       IN  lapped <= unseen - pde.lastPass]_vars

(* Copies out of bounds (memCopyToUserBuf) come only after a callback in   *)
(* one of four places: in adcStart before DaafTransferActive is set, where *)
(* its adcStop takes userInpBuf away, before the backlog is taken, or      *)
(* between memcpy and the moves of the heads; or between the two stores of *)
(* adcSoftTrig.                                                            *)
WildOnlyIfRaced == pde.wild => hist.raced
=============================================================================
