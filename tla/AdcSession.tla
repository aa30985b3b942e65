----------------------------- MODULE AdcSession -----------------------------
(***************************************************************************)
(* apiadc.c: what one handle of the library knows of the acquisition that  *)
(* the driver runs.  The library polls: each status call compares the      *)
(* driver's count with the one it saw last and moves the head of its own   *)
(* view of the transfer buffer; reads copy from the mapped buffer while    *)
(* the driver goes on filling its own.  The driver is AdcDriver, the       *)
(* promises AdcRefinement shows the engine to keep.  A library call is a   *)
(* sequence of steps, at most one ioctl each, between which callbacks      *)
(* come; calls come from a program that does anything, or from one of the  *)
(* examples.                                                               *)
(* The unit is the scan: the scan list keeps its length during a session.  *)
(***************************************************************************)
EXTENDS Integers, Sequences

CONSTANTS
  Counts,    \* scan counts that programs ask for; 0 is an endless acquisition
  Lengths,   \* lengths of transfer buffers, in scans
  Leftovers, \* scans that an uninitialised realSamplesToProcess may stand for
  Top,       \* what processNewData adds when the count goes down: 2^32 - 1
  MaxScans   \* bound: scans that one acquisition owes

VARIABLES
  drv,  \* the driver (AdcDriver)
  lib,  \* session[handle]
  call, \* the library call under way: the steps it still has to make
  prog, \* the program that makes the calls (AdcExamples)
  hist  \* history, read by the properties only

vars == <<drv, lib, call, prog, hist>>

Driver == INSTANCE AdcDriver WITH
    Totals <- Counts, MaxNew <- 1, Errors <- {"Overrun"}, broken <- FALSE

(* Counts are unsigned; buffers have room, and are far from Top.           *)
ASSUME SessionAssumption ==
  /\ Top \in Nat
  /\ Counts \subseteq Nat /\ Leftovers \subseteq Nat /\ MaxScans \in Nat /\ MaxScans < Top
  /\ \A n \in Lengths : n \in Nat \ {0} /\ n + MaxScans < Top

Unknown == -1
Refusal == -1  \* a configuration that daqAdcArm or the driver refuses

Mode(buf, cyclic, ignore) == [buf |-> buf, cyclic |-> cyclic, ignore |-> ignore]
Modes == {Mode(FALSE, FALSE, FALSE), Mode(TRUE, FALSE, FALSE),
          Mode(TRUE, TRUE, FALSE), Mode(TRUE, TRUE, TRUE)}

InitLib ==
  [open |-> FALSE, acq |-> FALSE, xfer |-> FALSE, changed |-> FALSE, conf |-> 0,
   len |-> 0, mode |-> Mode(FALSE, FALSE, FALSE), mapped |-> FALSE,
   count |-> 0, head |-> 0, tail |-> 0, avail |-> 0, err |-> "None",
   last |-> 0, file |-> "none"]

(* failed: whether the library refused a call or the device (or the disk,  *)
(* or the clock) let one fail.                                             *)
(* read: the scans the program has of this transfer, unless the head of    *)
(* the library no longer follows the driver.  undefined: what the program  *)
(* has run into that C leaves undefined, after which nothing is said of it. *)
InitHist == [read |-> Unknown, failed |-> {}, undefined |-> "nothing"]

(* daqAdcTransferStart and apiAdcReadSample start the bookkeeping anew.    *)
Restarted(l) ==
  [l EXCEPT !.xfer = TRUE, !.count = 0, !.head = 0, !.tail = 0, !.avail = 0,
            !.err = "None", !.last = 0]
-----------------------------------------------------------------------------
(* The library's view of the buffer.                                       *)

(* processNewData: new is the driver's count, real what the uninitialised  *)
(* realSamplesToProcess stands for.                                        *)
NewScans(l, new) == IF l.count > new THEN new + Top - l.count ELSE new - l.count

TooMuch(l, real) == l.mode.buf /\ real + l.avail > l.len

Between(l, tail, head) == IF tail > head THEN l.len - tail + head ELSE head - tail

MovedLate(l, real) ==  \* mutant: a head that meets the tail means empty
  LET head == (l.head + real) % l.len
  IN  [l EXCEPT !.head = head, !.avail = Between(l, l.tail, head)]

Moved(l, real) ==
  LET head == (l.head + real) % l.len
  IN  [l EXCEPT !.head = head,
                !.avail = IF l.tail = head \/ TooMuch(l, real) \/ @ = l.len THEN l.len
                          ELSE Between(l, l.tail, head)]

(* A gap longer than the buffer is skipped, with an error only if there is *)
(* a file to write; a buffer that would overflow is an overrun.            *)
Skipped(l, new) == NewScans(l, new) > l.len /\ ~l.mode.ignore

ProcessNewData(l, new, real) ==
  LET result(lib2, e, lost) == [lib |-> lib2, err |-> e, lost |-> lost]
  IN  IF NewScans(l, new) = 0 THEN result(l, "None", FALSE)
      ELSE IF Skipped(l, new)
      THEN result(l, IF l.file = "open" THEN "Overrun" ELSE "None", TRUE)
      ELSE IF TooMuch(l, real) /\ ~l.mode.ignore THEN result(l, "Overrun", TRUE)
      ELSE result(Moved(l, real), "None", TooMuch(l, real))

ByTransfer(l, d) == l.acq /\ d.xfer  \* mutant: the end of the transfer is taken for it

KeepsActive(l, d) == l.acq  \* mutant: the end of the acquisition goes unnoticed

StaysActive(l, d) == l.acq /\ d.acq

(* adcGetStatAndProcessData and adcTransferGetStat: the first error is     *)
(* kept until it is returned; an error leaves the head but not the count.  *)
Status(l, d, real) ==
  LET p   == IF d.error = "None" THEN ProcessNewData(l, d.count, real)
             ELSE [lib |-> l, err |-> d.error, lost |-> d.count # l.count]
      e   == IF l.err # "None" THEN l.err ELSE p.err
  IN  [err   |-> e,
       lost  |-> p.lost,
       lucky |-> NewScans(l, d.count) \in {0, real} \/ p.err # "None" \/ Skipped(l, d.count),
       scans |-> IF l.mode.buf THEN p.lib.avail ELSE d.count,
       lib   |-> [p.lib EXCEPT !.err = "None", !.count = d.count,
                    !.xfer = l.xfer /\ d.xfer, !.acq = StaysActive(l, d),
                    !.file = IF l.acq /\ ~d.acq /\ @ = "open" THEN "named" ELSE @]]

(* adcLoadBuffer: the cells that are copied, and tail and avail after it.  *)
(* A full ring has its tail at its head and is taken for one that does not *)
(* wrap: the copy may run past its end.                                    *)
Wraps(l, n) == l.tail > l.head /\ n > l.len - l.tail

Cell(l, n, i) ==
  IF Wraps(l, n) /\ i >= l.len - l.tail THEN i - (l.len - l.tail) ELSE l.tail + i

NewTailStays(l, n) == l.tail  \* mutant: what is read stays

NewTail(l, n) ==
  IF Wraps(l, n) THEN n - (l.len - l.tail)
  ELSE IF l.tail > l.head /\ n = l.len - l.tail THEN 0
  ELSE IF l.tail <= l.head /\ n = l.len THEN l.tail
  ELSE l.tail + n

Loaded(l, n) ==
  LET tail == NewTail(l, n)
  IN  [l EXCEPT !.tail = tail, !.avail = Between(l, tail, l.head)]

InBounds(l, n) == \A i \in 0..(n - 1) : Cell(l, n, i) < l.len

(* adcLoadNewest: the cells of the last n scans before the head, without   *)
(* looking at the tail or moving it.                                       *)
NewestCell(l, n, i) ==
  LET first == n - l.head
  IN  IF first <= 0 THEN i - first
      ELSE IF i < first THEN l.len - first + i ELSE i - first

(* The scan the driver wrote last into a cell of in_buf (adcStart).        *)
ScanIn(d, p) == LET turns == (d.count - 1 - p) \div d.size
                IN  IF d.count = 0 \/ p >= d.size \/ p > d.count - 1 THEN 0
                    ELSE p + 1 + turns * d.size

(* db2k_mmap: a mapping with write permission shows in_buf, one without    *)
(* shows out_buf, where nothing is ever written.  linMap asks for one to   *)
(* read from.                                                              *)
BufferMapped(prot) ==
  IF "write" \in prot THEN "in_buf" ELSE IF "read" \in prot THEN "out_buf" ELSE "none"

MappedBuffer == BufferMapped({"read"})

Contents(buf, d, p) == IF buf = "in_buf" THEN ScanIn(d, p) ELSE 0
-----------------------------------------------------------------------------
(* Calls.  A step that ends well goes on with the next, an error with the  *)
(* part of the call that is made in any case.                              *)
NoCall ==
  [todo |-> <<>>, n |-> 0, how |-> "NoWait", mode |-> Mode(TRUE, FALSE, FALSE)]
Ops(todo) == [NoCall EXCEPT !.todo = todo]

At(op)    == call.todo # <<>> /\ Head(call.todo) = op /\ hist.undefined = "nothing"
Rest      == Tail(call.todo)
Left(todo) == call' = IF todo = <<>> THEN NoCall ELSE [call EXCEPT !.todo = todo]
GoOn       == Left(Rest)
Then(ops)  == Left(ops \o Rest)

Cleanup(steps) ==
  LET kept[i \in 0..Len(steps)] ==
        IF i = 0 THEN <<>>
        ELSE IF steps[i] \in {"getStat", "disarm", "stop"} THEN Append(kept[i - 1], steps[i])
        ELSE kept[i - 1]
  IN  kept[Len(steps)]

(* daqAdcRdScanN returns at once when it cannot start, otherwise it and    *)
(* apiAdcReadSample clean up; daqAdcTransferStop returns with the buffer   *)
(* mapped when its wait fails; all of them go on after a failed            *)
(* daqAdcDisarm, daqOpen and daqClose too.                                 *)
AfterError(op) ==
  IF op \in {"set", "buffer", "start", "sample"} THEN <<>>
  ELSE IF op = "stopWait" THEN Tail(Rest)
  ELSE IF op = "disarmStat" THEN Rest
  ELSE Cleanup(Rest)

GiveUp == Left(AfterError(Head(call.todo)))
Failed(why) == hist' = [hist EXCEPT !.failed = @ \cup {why}]
Refuse == GiveUp /\ Failed("library") /\ UNCHANGED <<drv, lib>>

Open       == Ops(<<"device", "disarm", "stop", "opened", "arm", "disarm">>)
Close      == Ops(<<"disarm", "stop", "closed">>)
Set(n)     == [Ops(<<"set">>) EXCEPT !.n = n]
SetFile    == Ops(<<"file">>)
Buffer(n, mode) == [Ops(<<"buffer">>) EXCEPT !.n = n, !.mode = mode]
Start      == Ops(<<"start">>)
Arm        == Ops(<<"arm">>)
GetStat    == Ops(<<"getStat">>)
WaitDone   == Ops(<<"waitDone">>)
WaitData   == Ops(<<"waitData">>)
BufData(n, how) == [Ops(<<"bufStat">>) EXCEPT !.n = n, !.how = how]
Disarm     == Ops(<<"disarm">>)
Stop       == Ops(<<"stop">>)
ReadScanN(n) ==
  [Ops(<<"set", "buffer", "start", "arm", "waitDone", "bufStat", "disarm", "stop">>)
     EXCEPT !.n = n]
ReadSample(n) ==
  [Ops(<<"sample", "sampleArm", "waitDone", "getStat", "disarm", "stop">>)
     EXCEPT !.n = n]
-----------------------------------------------------------------------------
(* The steps.                                                              *)

(* db2k_flush, when the descriptor is closed, by daqOpen of an open device *)
(* (itfInit), by daqClose or by the end of the process.                    *)
Flushed(d) == Driver!Stopped(Driver!Disarmed(d))

Device ==
  /\ At("device")
  /\ GoOn /\ lib' = [lib EXCEPT !.open = TRUE] /\ drv' = Flushed(drv)
  /\ UNCHANGED hist

Closed ==
  /\ At("closed")
  /\ GoOn /\ lib' = [lib EXCEPT !.open = FALSE] /\ drv' = Flushed(drv)
  /\ UNCHANGED hist

Asks(l, n) == [l EXCEPT !.conf = n, !.changed = TRUE]

(* The defaults of MsgInit, an endless acquisition among them.             *)
Opened ==
  /\ At("opened")
  /\ GoOn
  /\ lib' = IF lib.acq THEN lib ELSE [Asks(lib, 0) EXCEPT !.file = "none"]
  /\ UNCHANGED <<drv, hist>>

(* daqAdcSetAcq, daqAdcSetScan, daqAdcSetFreq, daqSetTriggerEvent.         *)
Configure ==
  /\ At("set")
  /\ \/ lib.acq /\ Refuse
     \/ ~lib.acq /\ GoOn /\ lib' = Asks(lib, call.n)
        /\ UNCHANGED <<drv, hist>>

SetDiskFile ==
  /\ At("file")
  /\ \/ lib.acq /\ Refuse
     \/ ~lib.acq /\ GoOn /\ lib' = [lib EXCEPT !.file = "named"] /\ UNCHANGED <<drv, hist>>

(* A buffer that is still mapped is given to free(), which it never came   *)
(* from; linMap may fail.                                                  *)
SetBuffer ==
  /\ At("buffer")
  /\ LET set == [lib EXCEPT !.len = call.n, !.mode = call.mode]
     IN  \/ lib.xfer /\ Refuse
         \/ /\ ~lib.xfer /\ call.mode.buf /\ lib.mapped
            /\ hist' = [hist EXCEPT !.undefined = "free"]
            /\ UNCHANGED <<drv, lib, call>>
         \/ /\ ~lib.xfer /\ call.mode.buf /\ ~lib.mapped
            /\ lib' = [set EXCEPT !.mapped = TRUE, !.head = 0, !.tail = 0, !.avail = 0, !.count = 0]
            /\ hist' = [hist EXCEPT !.read = Unknown]
            /\ GoOn /\ UNCHANGED drv
         \/ /\ ~lib.xfer /\ call.mode.buf /\ ~lib.mapped
            /\ lib' = set
            /\ hist' = [hist EXCEPT !.read = Unknown, !.failed = @ \cup {"device"}]
            /\ GiveUp /\ UNCHANGED drv
         \/ /\ ~lib.xfer /\ ~call.mode.buf
            /\ lib' = set
            /\ GoOn /\ UNCHANGED <<drv, hist>>

(* daqAdcTransferStart notes the transfer before the driver accepts it:    *)
(* after a refusal the library follows the count of the transfer before.   *)
NewTransfer ==
  [hist EXCEPT !.read = IF lib.mode.buf /\ ~lib.mode.ignore THEN 0 ELSE Unknown]

TransferStart ==
  /\ At("start")
  /\ \/ lib.xfer /\ Refuse
     \/ /\ ~lib.xfer
        /\ lib' = Restarted(lib)
        /\ IF Driver!CanStart(drv)
           THEN /\ drv' = Driver!Started(drv, lib.len, lib.mode.cyclic)
                /\ hist' = NewTransfer
                /\ Then(<<"backlog">>)
           ELSE /\ hist' = [hist EXCEPT !.read = Unknown, !.failed = @ \cup {"library"}]
                /\ GiveUp /\ UNCHANGED drv

(* adcStart: the scans that waited, and the end of a transfer that has no  *)
(* acquisition.                                                            *)
Backlog ==
  /\ At("backlog")
  /\ LET d == Driver!Handed([drv EXCEPT !.waiting = 0], drv.waiting)
     IN  drv' = IF drv.waiting > 0 /\ ~drv.acq THEN Driver!Stopped(d) ELSE d
  /\ GoOn /\ UNCHANGED <<lib, hist>>

(* daqAdcArm: the configuration, if it changed, then the disk file, then   *)
(* the driver.  The library notes the acquisition before the last two.     *)
CountRestarts == drv.xfer /\ drv.count > 0

Armed(d, ready) ==
  \/ /\ ready /\ Driver!CanArm(d) /\ drv' = Driver!Armed(d)
     /\ hist' = [hist EXCEPT !.read = IF CountRestarts THEN Unknown ELSE @]
     /\ GoOn
  \/ /\ ready /\ Driver!CanArm(d) /\ drv' = Driver!Cleared(d)
     /\ hist' = [hist EXCEPT !.read = IF CountRestarts THEN Unknown ELSE @,
                             !.failed = @ \cup {"device"}]
     /\ GiveUp
  \/ ~(ready /\ Driver!CanArm(d)) /\ drv' = d /\ GiveUp
     /\ Failed(IF ready THEN "library" ELSE "device")

AdcArm ==
  /\ At("arm")
  /\ \/ lib.acq /\ Refuse
     \/ /\ ~lib.acq /\ lib.changed /\ lib.conf = Refusal
        /\ drv' \in {drv, Driver!Refused(drv)}
        /\ GiveUp /\ Failed("library") /\ UNCHANGED lib
     \/ /\ ~lib.acq /\ ~(lib.changed /\ lib.conf = Refusal)
        /\ \E opened \in BOOLEAN :
             /\ lib' = [lib EXCEPT !.changed = FALSE, !.acq = TRUE,
                          !.file = IF @ = "none" THEN @ ELSE IF opened THEN "open" ELSE "named"]
             /\ Armed(IF lib.changed THEN Driver!Configured(drv, lib.conf) ELSE drv,
                      opened \/ lib.file = "none")

(* apiAdcReadSample: a configuration of its own, a transfer and an arm     *)
(* without disk file.                                                      *)
Sample ==
  /\ At("sample")
  /\ \/ (lib.acq \/ lib.xfer) /\ Refuse
     \/ /\ ~lib.acq /\ ~lib.xfer
        /\ lib' = [Restarted(lib) EXCEPT !.changed = FALSE]
        /\ drv' = Driver!Started(Driver!Configured(drv, call.n), call.n, FALSE)
        /\ hist' = [hist EXCEPT !.read = Unknown]
        /\ Then(<<"backlog">>)

SampleArm ==
  /\ At("sampleArm")
  /\ lib' = [lib EXCEPT !.changed = TRUE, !.acq = TRUE]
  /\ Armed(drv, TRUE)
-----------------------------------------------------------------------------
(* Steps that ask for the status.                                          *)
Reals == {NewScans(lib, drv.count)} \cup Leftovers

Cause == IF drv.error = "None" THEN "library" ELSE "device"

Asked(g) ==
  /\ drv' = [drv EXCEPT !.error = "None"]
  /\ hist' = [hist EXCEPT !.read = IF g.lost THEN Unknown ELSE @,
                          !.failed = IF g.err = "None" THEN @ ELSE @ \cup {Cause},
                          !.undefined = IF g.lucky THEN @ ELSE "read"]

GetStatus ==
  /\ At("getStat")
  /\ \E real \in Reals :
       LET g == Status(lib, drv, real)
       IN  /\ Asked(g) /\ lib' = [g.lib EXCEPT !.last = g.scans]
           /\ IF g.err = "None" THEN GoOn ELSE GiveUp

AdcDisarm ==
  /\ At("disarm")
  /\ \/ lib.acq /\ drv' = Driver!Disarmed(drv) /\ Then(<<"disarmStat">>)
     \/ ~lib.acq /\ GoOn /\ UNCHANGED drv
  /\ UNCHANGED <<lib, hist>>

DisarmStatus ==
  /\ At("disarmStat")
  /\ \E real \in Reals :
       LET g == Status(lib, drv, real)
       IN  /\ Asked(g)
           /\ IF g.err = "None" THEN GoOn /\ lib' = [g.lib EXCEPT !.acq = FALSE]
                                ELSE GiveUp /\ lib' = g.lib

TransferStop ==
  /\ At("stop")
  /\ \/ lib.xfer /\ drv' = Driver!Stopped(drv) /\ Then(<<"stopWait", "unmap">>)
     \/ ~lib.xfer /\ Then(<<"unmap">>) /\ UNCHANGED drv
  /\ UNCHANGED <<lib, hist>>

Unmap ==
  /\ At("unmap")
  /\ lib' = [lib EXCEPT !.mapped = @ /\ ~lib.mode.buf]
  /\ GoOn /\ UNCHANGED <<drv, hist>>

(* daqWaitForEvent: poll the flag of apiAdcTransferGetFlag, then look at   *)
(* the clock.                                                              *)
EventSet(op, g) == ~drv.xfer \/ (op \in {"waitData", "bufWait"} /\ g.scans > lib.last)

Polls(op, Goes) ==
  /\ At(op)
  /\ \E real \in Reals :
       LET g == Status(lib, drv, real)
       IN  /\ Asked(g) /\ lib' = g.lib
           /\ IF g.err # "None" THEN GiveUp
              ELSE IF EventSet(op, g) THEN Goes ELSE UNCHANGED call

WaitOps == {"waitDone", "waitData", "stopWait", "bufWait"}

Wait == \/ \E op \in WaitOps \ {"bufWait"} : Polls(op, GoOn)
        \/ Polls("bufWait", Then(<<"bufCheck">>))

TimesOut ==
  /\ \E op \in WaitOps : At(op)
  /\ drv.xfer
  /\ GiveUp /\ Failed("device") /\ UNCHANGED <<drv, lib>>

(* daqAdcTransferBufData; "Newest" is DabtmNoWait with DabtmNewest.        *)
Reads(n) == call' = [call EXCEPT !.todo = <<"copy">> \o Rest, !.n = n]

CanRead == lib.mode.buf /\ lib.mapped /\ call.n <= lib.len

BufStatus ==
  /\ At("bufStat")
  /\ \/ ~CanRead /\ Refuse
     \/ /\ CanRead
        /\ \E real \in Reals :
             LET g      == Status(lib, drv, real)
                 few    == call.n > g.scans
                 nodata == ~g.lib.xfer /\ g.scans = 0
                 notnow == \/ call.how = "RetNotDone" /\ g.lib.xfer
                           \/ call.how \in {"NoWait", "Newest"} /\ few
                 error  == \/ g.err # "None" \/ nodata
                           \/ call.how = "RetNotDone" /\ ~g.lib.xfer /\ few
             IN  /\ Asked([g EXCEPT !.err = IF error THEN "error" ELSE @])
                 /\ lib' = g.lib
                 /\ IF error THEN GiveUp
                    ELSE IF notnow THEN GoOn
                    ELSE IF ~few THEN Reads(call.n)
                    ELSE IF call.how = "RetAvail" THEN Reads(g.scans)
                    ELSE Then(<<"bufWait">>)

BufCheck ==
  /\ At("bufCheck")
  /\ \E real \in Reals :
       LET g    == Status(lib, drv, real)
           over == g.scans < call.n /\ ~(drv.acq \/ drv.xfer)
       IN  /\ Asked([g EXCEPT !.err = IF over THEN "error" ELSE @])
           /\ lib' = g.lib
           /\ IF g.err # "None" \/ over THEN GiveUp
              ELSE IF g.scans >= call.n THEN Reads(call.n)
              ELSE Then(<<"bufWait">>)

Copy ==
  /\ At("copy") /\ call.how # "Newest"
  /\ lib' = Loaded(lib, call.n)
  /\ hist' = [hist EXCEPT !.read = IF @ = Unknown THEN @ ELSE @ + call.n,
                          !.undefined = IF InBounds(lib, call.n) THEN @ ELSE "copy"]
  /\ GoOn /\ UNCHANGED drv

CopyNewest ==
  /\ At("copy") /\ call.how = "Newest"
  /\ GoOn /\ UNCHANGED <<drv, lib, hist>>

Step ==
  /\ \/ Device \/ Closed \/ Opened \/ Configure \/ SetDiskFile \/ SetBuffer
     \/ TransferStart \/ Backlog \/ AdcArm \/ Sample \/ SampleArm
     \/ GetStatus \/ AdcDisarm \/ DisarmStatus \/ TransferStop \/ Unmap
     \/ Wait \/ TimesOut \/ BufStatus \/ BufCheck \/ Copy
     \/ CopyNewest
  /\ UNCHANGED prog
-----------------------------------------------------------------------------
(* The driver goes on by itself.                                           *)
DriverStep ==
  /\ Driver!Callback \/ Driver!Fault
  /\ drv'.taken <= MaxScans
  /\ UNCHANGED <<lib, call, prog, hist>>
-----------------------------------------------------------------------------
(* What the library may rely on, and the program.                          *)

TypeOK ==
  /\ lib.mapped /\ lib.mode.buf /\ hist.undefined = "nothing" =>
       lib.head < lib.len /\ {lib.head, lib.tail, lib.avail} \subseteq 0..lib.len
  /\ lib.file \in {"none", "named", "open"} /\ lib.len \in Nat
  /\ drv.taken \in 0..MaxScans /\ call.n \in Nat \cup {Refusal}

(* What the library takes for idle is idle: adcAcqActive and adcXferActive *)
(* are cleared only when the driver is, or it would be configured, armed   *)
(* or given a new buffer in the middle of an acquisition.                  *)
LibraryKnows == (drv.acq => lib.acq) /\ (drv.xfer => lib.xfer)

(* An acquisition that is armed runs with the configuration the program    *)
(* asked for last (adcChanged), but for the one of apiAdcReadSample, which *)
(* leaves adcChanged set.                                                  *)
InSync == drv.acq /\ ~lib.changed => drv.total = lib.conf

(* What the library holds of the driver, its head and counts included, is  *)
(* so, or errs on the safe side.                                           *)
LibraryAgrees == TypeOK /\ LibraryKnows /\ InSync

(* The cells that daqAdcTransferBufData copies to the program are those    *)
(* where the driver has the scans that follow the ones copied before:      *)
(* unless a look at the driver came a whole buffer late, the count was     *)
(* restarted by an arm under a running transfer, the driver refused the    *)
(* transfer that the library set up, it lapped the program during the      *)
(* call, or the ring was full with scans read before and the copy ran past *)
(* its end.  Which buffer the cells are copied from is the question of     *)
(* SamplesArrive.                                                          *)
Continues ==
  \A i \in 0..(call.n - 1) : ScanIn(drv, Cell(lib, call.n, i)) = hist.read + i + 1

(* Those that it asks for as the newest are the last ones that the status  *)
(* counted, under the same exceptions.                                     *)
Newest ==
  \A i \in 0..(call.n - 1) :
    ScanIn(drv, NewestCell(lib, call.n, i)) = lib.count - call.n + i + 1

Lapped(read) == drv.count - read > lib.len

ReadsContinue ==
  At("copy") /\ hist.read # Unknown
  => IF call.how = "Newest" THEN Lapped(lib.count - call.n) \/ Newest
     ELSE ~InBounds(lib, call.n) \/ Lapped(hist.read) \/ Continues

(* "transfer acquired data into buffer": what is copied from those cells   *)
(* are the scans, that is, the buffer that linMap mapped is the one that   *)
(* the driver fills.                                                       *)
SamplesArrive ==
  At("copy") /\ call.how # "Newest" /\ hist.read # Unknown
    /\ InBounds(lib, call.n) /\ ~Lapped(hist.read)
  => \A i \in 0..(call.n - 1) :
       Contents(MappedBuffer, drv, Cell(lib, call.n, i)) = hist.read + i + 1

(* DerrOverrun: a program that looks at a buffer without IgnoreOverruns    *)
(* too late, when scans it has not read are overwritten, is told so.       *)
OverrunReported ==
  [][\A op \in {"getStat", "bufStat", "bufCheck"} :
       At(op) /\ ~At(op)' /\ hist.read # Unknown /\ drv.count - hist.read > lib.len
       => hist'.failed # {}]_vars
=============================================================================
