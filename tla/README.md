# TLA+ specifications of the daqboard2000 driver and library

The repository is a Linux driver (`db2kdriver/`, a kernel module for the PCI
boards DaqBoard/2000) and a user library (`src/`, the DaqX API) that talks to
it through `ioctl` and a memory map, with example programs. These modules model
the parts of it where order matters, from the scan counter of the board to the
examples. Source lines are in `PROJECT.json` under `map`.

## Inventory

Paths are relative to the repository's `src/`.

| Component | State it keeps | Operations | What makes it correct |
|---|---|---|---|
| Analog input engine, `db2kdriver/adc.c` | status flags, error, `trig[2]`, scan counters, DMA ring head and search pointer, user buffer head and counts, in the `DEVICE_EXTENSION` (`pde`) | ioctls adcConfigure, adcArm, adcDisarm, adcStart, adcStop, adcSoftTrig, adcGetStatus; the timer callback adcEventL with checkEventsAndMoveData | every scan owed is delivered once, in order, in the number asked for; triggers are the first scan that qualifies; errors leave nothing running; no copy out of bounds; an acquisition ends |
| Scan counter, `daqio.c` readAcqScanCounter, `adc.c` computeScansAcquired | adcTRUECurrentScanCount, adcOldCounterValue, adcTRUEOldCounterValue, adcLastFifoCheck | a reading: four to six register accesses | never counts a scan that is not in memory, never invents or loses one at a wrap, in the end counts all |
| Acquisition timer, `adc.c` kickstartAdcEvent, adcEventL; `linux_drvrint.c` open, flush, close, cleanup | adcXferThreadRunning, adcThreadDie, inAdcEvent, adc_timer | start, callback, stop, wait for the old one, close, rmmod | one timer at a time, an active acquisition has one, a wait ends, nothing pending after unload |
| Level and edge events, `adc.c` checkForLevelEvent, adcTestConfiguration | hystSatisfied | test of one sample | first event of the signal; an edge is a real one |
| Scan list, pacer clock, configuration test, `adc.c` | the configuration of the last adcConfigure | adcSetScanSeq, computePacerClockDivisor, adcTestConfiguration, adcSetTrig | the board samples what was listed, at the period asked for |
| DMA descriptor chains, `adc.c`, `dac.c` | dmaInpChain, dmaOutChain | adcSetupChainDescriptors, dacSetupChainDescriptors | the blocks cover the buffer and form a ring |
| Analog outputs, `db2kdriver/dac.c` | modes, output ring and its descriptors, timer, status flags | dacMode, dacSetupBuffer, dacConfigure, dacArm, dacStart, dacStop, dacDisarm, dacWriteMany, callback dacEventL | the ring is padded and refilled before the DMA reaches it; underrun is reported |
| Counters and timers, `db2kdriver/ctr.c` | modes, cascades, the globals `startCh`, `endCh` | ctrSetOption, ctrRead | the hardware does what the driver reports, for each board |
| Digital I/O, `db2kdriver/dio.c`, `src/apidio.c` | 8255 configuration and output shadows | dioRead, dioWrite, the port and bit calls | a pin is as it was last written |
| Calibration, `db2kdriver/cal.c` | EEPROM, its image, constants and reference DACs in use | calConfigure, readCal, writeCal | what is used of a table adds up, and is of one save unless a torn one adds up too |
| FPGA loading, `linux_init_utils.c` | on line or not | loadFpga, getBoardInfo | the whole image from its mark on, or the board stays off line |
| Character device and module, `linux_drvrint.c`, `linux_entrypnt.c` | pdeArray, user_count, cleanupflags, in_buf, out_buf | init, probe, cleanup, open, flush, close, ioctl, mmap, /proc | what was set up is taken down once; an open file has what its calls use; one program for each board |
| Library sessions, `apictrl.c`, `w32ctrl.c`, `cmn.c`, `linux_daqx.c` | session table, driver handles, locks; mutexes are stubs | daqOpen, daqClose, error handlers | a handle means the board that was opened |
| Library acquisition, `apiadc.c` | for each session scan list, events, buffer, head and tail, active flags | setters, daqAdcArm, Disarm, TransferSetBuffer, Start, Stop, GetStat, BufData, daqWaitForEvent, conversions in place | the program reads the scans that the driver delivered, in order; what the library takes for idle is idle; what runs is what was asked for |
| Library outputs, `apidac.c` | for each channel mode, buffer and configuration, and whether the driver has them | daqDacSetOutputMode, daqDacWave*, daqDacTransferGetStat | what it believes of the driver is so, or errs on the safe side |
| Library calibration files, `apical.c` | table of constants by channel | daqReadCalFile, daqCalSetup, daqCalConvert | a conversion uses what the file says |
| Expansion cards, `apidbk.c` | options for each channel, banks that share an allocation | daqAdcExpSetBank, SetChanOption, SetModuleOption, messages to the cards | cards have the options that were accepted for them |
| Conversions, `apicvt.c` | a setup | thermocouple, RTD, zero, linear | floating point, without interaction |
| `apictr.c`, `apiintr.c`, `apiw32.c`, `topbit.h` | none on these boards | | |
| Examples, load script | | fourteen programs, `db2k_load` | they end, leave nothing running and have their scans |

Interaction: the library turns a call into one ioctl (`w32ctrl.c`), whose
argument db2k_ioctl copies into `in_buf`, the memory to which the driver also
copies what it acquires (the library maps another one, see Findings); entryIoctl calls the component. The board's pacer clock and
DMA run by themselves. The kernel timer calls adcEventL every 10 ms, and it
adds itself again as long as the DMA is active. On a uniprocessor the callback
comes between any two instructions of an ioctl and runs to its end; on a
multiprocessor the two interleave store by store. adcStatusMutex guards single
flag updates only; open_lock guards user_count in open but not in flush. The
library does not hear of anything: it polls, and keeps a head of its own for
the buffer that it shares with the driver.

Behaviours that are hard to test are listed with their lines under `hazards`.

## Modules

| Module | Models | Detail |
|---|---|---|
| `AdcAcquisition` | adc.c, the acquisition and its ioctls | one action per ioctl or per step of it between which a callback can make a difference; the callback is one step (uniprocessor) |
| `AdcDriver` | what these ioctls promise | no ring, no heads, no timer: scans taken, handed over, waiting |
| `AdcRefinement` | | the mapping by which AdcAcquisition implements AdcDriver |
| `AdcLiveness` | its scheduling | AdcAcquisition with fairness |
| `AdcProofs`, `AdcContentProofs`, `AdcRefinementProofs` | | theorems about AdcAcquisition: its control and its counts, the content of its buffers, its refinement |
| `ScanCounter` | readAcqScanCounter, computeScansAcquired, the board's counter, FIFO and DMA | one step per register access; the readers are the callback and adcSoftTrig |
| `AdcTimer` | the timer's life, open to rmmod | one step per access to a shared flag, callback and ioctl interleaved (multiprocessor) or not |
| `LevelEvent` | checkForLevelEvent and the trigger part of adcTestConfiguration | one step per sample |
| `AdcConfig` | adcTestConfiguration, adcSetScanSeq, computePacerClockDivisor, setting the trigger | functions of a request |
| `AcqSetup` | the setters of apiadc.c, adcConfigure, what adcArm gives to the board | one action per library call |
| `DescriptorChain` | the DMA chains of input and output | one step per descriptor |
| `ChainProofs`, `AdcTimerProofs`, `SessionProofs` | | theorems about DescriptorChain, AdcTimer, CharDevice with Sessions |
| `DacProofs` | | theorems about DacSession: its control and its counts, the samples it puts out |
| `AdcSessionProofs` | | theorems about AdcSession under the programs of AdcExamples |
| `AdcSession` | the library's acquisition calls on AdcDriver | one step per ioctl and per poll, callbacks between |
| `AdcExamples` | the eleven examples that acquire, and a program that makes any call | scripts of calls; killed at any step |
| `RawConversion` | daqCvtRawDataFormat, daqAdcBufferRotate | one step per copyScan |
| `DacWaveform` | dac.c, its waveform ioctls, callback, ring and descriptors, and the board's output DMA and pacer | one action per ioctl, dacArm in three; the callback is one step |
| `DacSession` | who calls it: a program that issues ioctls, or the library's calls in apidac.c | one action per library call, daqDacWaveArm one per channel; extends DacWaveform |
| `CharDevice` | loading, failing, removing the module; files, mappings, /proc | one step per resource |
| `Sessions` | daqOpen, daqClose, fork and exit of programs; extends CharDevice | one step per system call |
| `CtrTmr`, `DioPorts`, `CalEeprom`, `CalFile`, `FpgaLoad`, `ExpansionCards` | ctr.c; dio.c and apidio.c; cal.c; apical.c; linux_init_utils.c; apidbk.c | one action per call, ioctl, block, line or word |
| `MCAdcAcquisition`, `MCLiveness`, `MCScanCounter`, `MCDacSession`, `MCSessions`, `MCServices` | | values for TLC |

How they fit. AdcAcquisition uses a reading of the counter as ScanCounter shows
it (never ahead of the scans in the ring, at most FifoScans behind, never
backwards), takes the scans that satisfy a level comparison as the constant
Signal, which LevelEvent justifies, and takes the callback as one step, which
is what AdcTimer looks into. AdcAcquisition implements AdcDriver
(`ImplementsDriver`, with `DriverView` of AdcRefinement as the mapping), and
AdcSession runs the library on AdcDriver, so that one interleaving of callbacks
need not be explored twice. Sessions runs on CharDevice. AcqSetup ends where a
board is armed, AdcSession begins with a configuration that is a scan count or
refused. MCServices puts next to each other what shares no state.

### AdcAcquisition

`pde` is a record with the fields of the DEVICE_EXTENSION that adc.c uses, and
each C function that takes `pde` is an operator from record to record, so that
the callback is the composition the C code is: `AdcEventL` calls
`CheckEventsAndMoveData`, which reads the counter, tests for errors, looks for
trigger and stop (`CheckForTrigger`, `CheckForStop`) and copies
(`CopyNewScans`, `MemCopy`, `Advance`).

The unit of data is a scan: sample n of the ring is scan number n, and a copy
puts the scan number the ring cell really holds into `buf`. So a lapped ring,
a shifted head or a wrong length show as wrong numbers.
`head` is dmaInpBufHead, `search` eventSearchPtr, `userHead` userInpBufHead,
`toMove` scansToMoveToUserBuf, `inUser` scansInUserBuffer, `read`, `current`
and `last` the three scan counts. The fields `first`, `sent`, `dropped`,
`stale` and `wild` and the variable `hist` are history: the first scan the
program is owed after the trigger, the scans delivered and thrown away, whether
an overwritten scan was delivered, whether a DWORD length went below zero or was
computed from a NULL userInpBuf.

adcStart is six steps (set userInpBuf; set the transfer active; take the backlog;
memcpy; move the heads; end) and adcSoftTrig two, because a callback between
them acts on what they have half done. adcArm is the part before its wait and the part after it; the
timer cannot come in the second part, as `AdcTimer` shows. Each ioctl first
overlays the head of `in_buf` with its argument, as db2k_ioctl does.

After the stop event adcSoftTrig indexes `trig[2]`. On a 64-bit build what is
there is known: `count` is the upper half of userInpBuf, and the two stores
fall on fields that adcStart sets before they are used; the model does that.

`hist.raced` marks a callback that acted on half of an adcStart or adcSoftTrig
(`Harmful`), in one of four places. In adcStart: after userInpBuf is set and
before DaafTransferActive is, where an acquisition that ends calls adcStop and
leaves userInpBuf NULL under a transfer that then becomes active; before the
backlog is taken, where the callback ends the transfer; between the memcpy and
the moves of the heads, where it copies too or ends the transfer. In adcSoftTrig:
between its two stores, where it counts scans. `Sound` (neither raced nor wild) is
a premise of the properties about data: with such a callback the code does lose
its place (a length computed from NULL, heads moved twice, a stop event scan that
lies before what was copied), and WildOnlyIfRaced says that without one there is
no copy out of bounds.

### AdcDriver and AdcRefinement

AdcDriver says what adc.c promises to its callers. Its record `drv` has the
flags of adcGetStatus, the scans taken for the program, those that wait because
no transfer runs and those in the program's buffer; a callback (`Callback`)
takes some, hands over what fits and may end the acquisition; an ioctl may find
scans that callbacks have left. `DriverView` maps a state of AdcAcquisition to
such a record: waiting is what the ring owes plus what adcStart holds in its
local variables, total is what the configuration in force when it was armed adds
up to. A request may ask for the sum of any configured counts or, when adcConfigure refused
and kept the counts of no request before, for none (`TotalsAsked`); a callback finds at most the scans of
an acquisition and one more, which adcSoftTrig names as the trigger. `ImplementsDriver`, checked in adc_rearm and
proved in AdcRefinementProofs, says that each step of the engine is a step of
AdcDriver or leaves the view as it is, up to the first callback in one of the
places where the code does lose its place (`broken`, where AdcDriver allows
anything).

### ScanCounter

The 16-bit register counts complete scans; samples go through a 66-deep FIFO
and the DMA moves two at a time, so an odd sample stays behind. A reading that
finds the board at work takes off as many scans as the FIFO can hold; one that
finds it at rest takes the register, peeks at the odd sample, looks a second
time and puts the sample into the ring by hand. `rd[r]` holds the reader's next
step and locals. What is excused in the properties, and was found by TLC:

* a second look that fails takes one off the count but not off
  adcOldCounterValue, so that the next reading goes back to the same count
  with its last sample not in the ring (`hist.back`);
* if that happens just after the register came round, 65536 scans are lost
  (`hist.lost`, run scan_verify);
* a callback in the middle of adcSoftTrig's reading makes a carry from a value
  that is stale (`hist.raced`);
* two whole scans between the two registers of the second look let it pass
  with another scan's sample (`hist.poked.between`);
* the FIFO holds 66 mod scanSize samples more than the scans taken off;
* computeScansAcquired loses a scan when the 32-bit count comes round.

### AdcTimer

The callback's and the ioctls' accesses to dmaInpActive, adcThreadDie,
adcXferThreadRunning, inAdcEvent and the timer are steps of their own. Two
assumptions about time are in the guards: a timer expires 10 ms after it was
added, so the callback is not started again while it runs; and adcArm waits
100 ms, so that its wait runs out only when no callback is pending. The
program's ioctls come one after the other. On a multiprocessor adcArm can pass
its wait when the old callback has cleared adcXferThreadRunning but has not
reached del_timer: that del_timer then deletes the new timer
(`hist.overtook`), the flag stays set for ever, the acquisition is not served,
and once it is disarmed every adcArm returns DerrAcqArmed. On a uniprocessor
this cannot happen.

### LevelEvent

All accepted requests (sources, sensitivities, signed or not, level, variance,
location) against all signals of a few samples. The casts to WORD and SHORT
are modelled; one of the levels is wider than a sample, because
adcTestConfiguration compares unsigned edges on the whole DWORDs.

### AdcConfig and AcqSetup

AdcConfig is adcConfigure as functions of a request: `ListFault`, `CountFault`,
`StartFault`, `StopFault` and `ClockFault` are its tests in their order,
`Divisor` the pacer's two words with the borrow between them. AcqSetup runs them
behind the setters of apiadc.c: `lib` is what the handle remembers, `drv` what
the driver does, `board` what has been written to registers, and `asked` the
history the properties compare with. What they except is what the code does:

* the highest eight of 65536 trigger levels round to 4096, of which twelve bits
  are written: 0; the highest level of a signed range wraps; a falling edge at
  the highest count is refused;
* a stop event after daqAdcSetTrig makes the stale element 1 of the list the
  start;
* pre- and post-trigger counts times the length of the scan wrap at 32 bits;
* daqAdcSetFreq ignores a refusal; a period raised because a list was long stays
  raised; an external pacer clock (DarmExtClockPacer) is always refused;
* a refused adcConfigure leaves its events in the driver (adc.c:632) and has
  cleared scanConfiguredOK, even while an acquisition is armed (1586).

### AdcSession and AdcExamples

A library call is the sequence `call.todo` of its steps, each with at most one
ioctl; `DriverStep` comes between any two. After an error the steps that the code
makes in any case are left (`AfterError`): daqOpen and daqClose go on whatever
fails, a read cleans up. `lib` has the head, tail, counts and
flags of `session[handle]`; `Status` is adcGetStatus followed by processNewData
with the head's modulo arithmetic (`Top` is the 2^32 - 1 it adds when
the count goes down). Scans are numbered and the ring's content follows from the
driver's count (`ScanIn`), so that "the following scan" is a number.
`hist.undefined` marks what C does not define: free() of a mapped buffer, a copy
past the ring's end, an uninitialised count (`Leftovers`).

AdcExamples has a program that makes any call with any argument, and the eleven
examples that acquire as scripts; any of them may be killed between two steps
(`Exit`), and the next one finds the driver as db2k_flush left it. The examples
print what they read and do not look at errors, and so does the model.

### CharDevice and Sessions

`held` is what the kernel has given to the module, `pde[i].has` what the
extension's flags and pointers say of it; db2k_init is one action per thing
acquired, each may fail, and db2k_cleanup is called by allocate_buffers, by
db2k_init and at rmmod. A file keeps
its reference to the module until its last descriptor and its mapping are gone; a device node left by an earlier load may be
opened while db2k_init still runs (`early`). Sessions puts the tables of
apictrl.c and w32ctrl.c on top: entries carry the process number, a fork copies
them with the parent's number, freeHandle moves the last entry into the gap.
Two names may mean one board. There is one fork (bound); the properties except the
board whose descriptor it shares, because a child that closes or dies runs
db2k_flush, which stops the parent's acquisition and takes user_count below zero.

### ExpansionCards

For each channel the options in the library (`opt`), those in its card (`card`)
and what was asked (`asked`); `Junk` is malloc'ed memory that nobody set. Found
and excepted: daqAdcExpSetModuleOption and the defaults of a new bank reach one
channel of the card only (apidbk.c:1960-1969), the others keep what was in
memory; options for excitation, clock and slope do not mark the card as changed;
a baseline of a DBK4 is struck off before it is sent (578); errors of a DBK50
are ignored; once a transfer is started every message is refused;
daqAdcExpSetModuleOption falls through its cases; apiAdcSendSmartDbkData leaves
adcChanged set when its ADC_START fails.

### CtrTmr, DioPorts, CalEeprom, CalFile, FpgaLoad

CtrTmr interleaves the calls for two boards at every access to the globals
startCh and endCh; a board whose call met another one (`raced`) is excused, the
rest is exact but for the divisor of timer 3 and the calls for all counters,
which the property names. DioPorts has the pins as sets of bits and the shadow
of three entries that the configuration of the local ports shares with expansion
port A. CalEeprom writes tables block by block into an EEPROM whose addresses
are scaled, with a loss of power before any of them; the tables overlap, as
sizeof(eepromT) makes them. A table is verified as cal.c does it, by one byte that
its bytes have to add up to (`AddsUp`): each block of a save has a sum
(`BlockSum`), and a save cut off by a loss of power is taken for a whole one where
the blocks it mixes add up to the same. CalTruth excepts those (`Torn`), and
says that no other mixture is ever used. What was in the EEPROM before the first
save is taken not to add up. CalFile has a heap of allocations with the 16
channels of a card sharing one. FpgaLoad sends the image word by word; INIT may
fall and the CPLD be late at any of them.

### RawConversion and DescriptorChain

RawConversion's samples are four nibbles with names, so that a rotation, a
packing and an unpacking are permutations that can be compared. Only one block
is ever packed or unpacked, as PackData and UnpackData set nBlocks to 1
(apiadc.c:3596, 3611); with fewer than four samples they leave the buffer; a
scan longer than tempScan (128) overflows it and a scan count of 0 divides by
zero, all of which is `wild`.

DescriptorChain computes addresses as the code does, in bytes and with
`(PDWORD) ptrA - 0xf` as 60: each address is three descriptors short, and the
first lies in front of the chain (`ThreeShort`). ChainProofs shows both for every size. What a board makes of that is not in
the source: the modules about DMA assume the chain that was meant.

### DacWaveform and DacSession

The same style as AdcAcquisition: `pde` is the record, each function of dac.c
an operator on it. dacArm is `Rearmed` (disarm, clear the counters), then
`SetupBuffer`, `Prime`, `ComputePadBlockInfo`, `Pad`, `PrepareToStop` and the
DMA (`ArmedDma`); `DacArmActive` and the wait of kickstartDacEvent are steps of
their own, because a callback of the waveform before may still be pending and
comes before, between or after them. A sample is <<channel, index>>, so that
the ring, the FIFO and the pad block show whose sample an update gives to whom;
what lies past a buffer's end or was never written is `Junk`. The board loads a
descriptor when it begins a block (`Load`), with the cut that computePadBlockInfo
and prepareToStopDmaOut make in it, and keeps its FIFO full.

What dacRepmov copies is nothing, as its loop is empty: a dynamic waveform's
samples never reach the ring, only their count does (`CopyUserSamples`). So
`OutputExact` is about static waveforms. Its premise `hist.clean` says that all
waveform channels were started since they were last armed: primeDmaOutputBuffer
advances bufHead and only dacStart sets it back, so that the digital port, the
only channel whose transfer survives dacStop, is read past its buffer when it is
armed again. A counted static waveform longer than the ring is not stopped by
the descriptors (prepareToStopDmaOut is called for it at arm only): it goes on
until the callback has counted it.

What the properties of `DacSession` except was found by TLC: `Watched` excludes a
dacStop of an active waveform, a wait that ran out unnoticed, and a callback that ended what dacArm had begun, after which
DdafWaveformActive is set without DMA or timer. `WavesFit` names what makes
dacSetupBuffer accept waveforms that do not match: it compares the first n
channels that have a transfer, in voltage mode too, and takes the length of the
last dacStart. `ModesAgree` excepts the digital port: db2k_flush never calls
dacStop and daqOpen does not send the port's mode, so that a program may find
the waveform mode and the transfer of the one before.

The two dacWaveActive flags of a handle, which are set and cleared together,
are one; modes and buffers are chosen from what `Uses` says of the caller.
A waveform from a disk file, the trigger by the ADC clock and the wrap of the
32-bit totals are left out.

## Runs

| Run | Properties | Shows | Bounds |
|---|---|---|---|
| adc_data | TypeOK, Conservation, ContentInOrder, ErrorQuiesces, EventsExact, WildOnlyIfRaced | scans are delivered once, in order, in the number asked for; triggers and stops are where they belong | a ring of 3 scans lapped by 4, buffers of 1 (filling) and 2 (cyclic), an argument over one scan of it, one scan of lag, latency 2; level/count, software/software with two pre-trigger scans, immediate/level; one arm |
| adc_rearm | BacklogBounded, OnlyStopKillsTimer, TimerCopiesIntact, ImplementsDriver | two acquisitions, the second over the first in any state it may be left in; a lapped ring; the engine implements AdcDriver | 2 arms, ring of 2, readings that lag by one scan, 4 scans, callbacks 4 scans late; a hardware trigger with a count of 4, an immediate one with 1 |
| scan | WrapCounts, SoftTaken, WrapExact | 16- and 32-bit wraps by the callback's readings, nothing is held back for ever; both readers together | odd scans of 3 samples, counters of 2 and 3 bits, FIFO of 3, 8 scans; with adcSoftTrig scans of 1 sample, a register of 2 bits that comes round, FIFO of 2, 5 scans |
| scan_verify | NoFalseOverrun (violated) | the failed second look at a carry | |
| timer_cleanup | NothingAfterCleanup (violated) | rmmod with the timer pending | |
| dac | OutputExact, CountsHonest, ErrorQuiesces, CopiesFit, ActivityAgrees, ModesAgree | waveforms are put out as armed and counted, served by one timer, and the library's picture of the driver holds | an analog channel and the digital port, waveforms of 1 and 2 samples, a ring of 9 samples in blocks of 3, FIFO of 3, counter of 2 bits, a count of 3 and endless, 5 updates after an arm; any number of arms |
| library | LibraryAgrees, ReadsContinue | the library under any program, and two examples that may follow it | a buffer of 2 scans, counts 1 and endless, 3 scans for each acquisition, any number of calls; Top is 1000, as TLC's integers end below 2^32 - 1 |
| endings | AcquisitionEnds, ExamplesEnd, ExamplesSucceed | a counted acquisition ends; the examples work and end | engine: count 2, 4 scans; examples: 2 scans of a buffer of 3 and of 2, 4 scans; killed at any step, any number of runs |
| mapped | SamplesArrive (violated) | an example that reads what it acquired reads another buffer | DaqAdcEx02 alone |
| overrun | OverrunReported (violated) | a program that looks too late is not told | |
| sessions | ModuleSound, HandleWorks, Undisturbed | loading, failing and unloading; opens, closes, forks and deaths | 2 boards, 2 files, 2 loads, 2 programs, 3 names of which two are one board's, 2 handles; symmetry of programs and of files |
| services | OneTimer, ArmedMeansArmed, ArmEnds, EventExact, CountersAsReported, PinsAsWritten, CalTruth, ConstantsAreTheFiles, WholeImage, SetupServed, CardsAsAsked, SamplesKept, ChainCovers | one part for each module that shares no state with the others | timer: none, the state space is finite; levels: samples of 3 bits, 3 samples; counters: 3 calls; pins: 4 calls of 19; setup, cards, files, EEPROM: the calls and numbers in MCServices; images of a few bytes; buffers of up to 8 scans of up to 3 channels; rings of 4 pages |

Properties that are conjunctions are listed once; their parts have names and
comments of their own in the modules.

The bounds suffice for what they are for: a ring that is lapped, a buffer that
fills and one that wraps within a copy, a copy split by the ring's end, a
trigger and stop in the same callback and in different ones, a register that
comes round between and within readings, an output ring whose last block is cut
and left for the pad block and one whose period does not divide it, a board
opened under two names and closed in the wrong order, an EEPROM table cut off
between any two blocks, a rotation of one, two and more cycles, a buffer that
begins anywhere in a page. That larger instances change nothing is proved for
the properties under Proofs, and for the others it is plausible: all index
arithmetic is modulo the size.

Deadlock is checked where the system never stops: the model says so where it
does (`Undefined` after an out-of-bounds copy, `Unloaded` after rmmod). The runs
sessions and services turn it off: a module that failed to load twice, a
calibration file at its end or a program that has made all its calls has nothing
left to do.

## Fairness

* AdcLiveness: the kernel calls a timer that is set (FairTimer), an ioctl in
  progress returns (FairIoctl, none of them loops but adcArm, whose wait is
  AdcTimer's), the pacer clock takes its scans (FairPacer). The program is not
  fair: it need never disarm. The variable `tick` makes a callback that
  changes nothing a step, so that the three can be said without ENABLED.
* ScanCounter: the callback reads again and again, the board ends a scan it
  has begun, the DMA empties the FIFO.
* AdcTimer (in MCServices): the callback goes on, an adcArm in progress goes on.
* AdcExamples: the program goes on (weak fairness of `Client`), an acquisition of
  a scan count that has its transfer proceeds, which is what AcquisitionEnds
  shows of the driver (`Proceeds`); strong fairness of a timeout that the wait's loop comes by
  again and again (`TimesOut`, the clock goes on) and of the key that the program
  waits for (`KeyPressed`).

AcquisitionEnds excepts an acquisition whose timer adcStop has told to die:
copyNewScans calls adcStop when the user's buffer is full, and the stop event
is then never seen; the flag DaafAcqActive stays until the program disarms.

## Proofs

| Module | Theorem | Property | For every |
|---|---|---|---|
| `AdcProofs` | TypeCorrect, ErrorsQuiesce, ActiveHasTimer | TypeOK, ErrorQuiesces, OnlyStopKillsTimer | ring, buffer, FIFO, set of requests |
| | ScansConserved, BacklogStaysBounded, WildNeedsRace, CallbackCopiesIntact, PretriggerTaken | Conservation, BacklogBounded, WildOnlyIfRaced, TimerCopiesIntact, none | the same, latency, number of scans and arms |
| `AdcContentProofs` | ContentStaysInOrder, EventsStayExact | ContentInOrder, EventsExact | the same, the signal |
| `AdcRefinementProofs` | EngineImplementsDriver | ImplementsDriver | the same |
| `AdcTimerProofs` | TimerIsOne, ArmedIsArmed | (OneTimer of MCServices) | a uniprocessor and a multiprocessor |
| `AdcSessionProofs` | LibraryAlwaysAgrees, ReadsAlwaysContinue | LibraryAgrees, ReadsContinue | lengths of buffers and numbers of scans that add up to less than Top, scan counts, programs |
| `DacProofs` | CountsStayHonest, ErrorsQuiesce, CopiesStayInside, ActivityStaysAgreed, ModesStayAgreed | CountsHonest, ErrorQuiesces, CopiesFit, ActivityAgrees, ModesAgree | channels, ring, block, FIFO, counter width, lengths, programs |
| | OutputStaysExact | OutputExact | the same |
| `SessionProofs` | ModuleIsSound | ModuleSound | boards, files, loads |
| | HandlesAreTheirBoards, NobodyDisturbs, SessionsLeaveModuleSound | HandleWorks, Undisturbed, ModuleSound | programs, names, boards, files, handles |
| `ChainProofs` | EveryChainCovers | ChainCovers | page, chain, buffer |

The assumptions are those of the modules' ASSUMEs only (`SizesAssumption`,
`RequestsAssumption`, `DacAssumption`, `UsesAssumption`, `NoneAssumption`,
`SessionAssumption`, `ExamplesAssumption`, `Sane`), which TLC evaluates on the instances. None of the
properties is inductive. Each proof has an inductive invariant, lemmas about
what an operator (a C function) returns and keeps, one lemma for each action,
and a last step that puts them together; TLC checked each invariant on the
run's instance before it was proved.

*AdcProofs.* An error is set in the same callback that turns the pacer off, so
what is needed of the states before is that an acquisition that is not active
has DMA and pacer off, and that adcArm is past its wait only without a timer:
`IInv == TypeOK /\ Control(pde)`. The interesting part of TypeOK is arithmetic:
ring head and search pointer, user head, the buffer. LevelOffset uses CHOOSE
over naturals; `LeastNatural` (from the library's well-founded minimum) says that
it finds one.

The counts are the second half. As long as no callback has acted on half of an ioctl
(`~hist.raced`), `Ledger` holds, a conjunction by the phases of an acquisition:
`Held` says that no length is below zero and where scans can wait, `Ordered` that
the driver has processed no more than it has read and the board has taken,
`Awaiting` and `Triggered` what is left of the counts before and after the trigger,
`Owed` that what was sent, waits, was thrown away or is in the local variables of
adcStart adds up to what was counted from the first scan owed, `Ended` that this
is what was asked for, `Bounded` how much can wait. `Flagging` says what
adcSoftTrig has read between its two stores, and that between the stores of
userInpBuf and of DaafTransferActive adcStart still has its buffer. Once a callback has acted on half of
an ioctl none of this holds, and `Sound` excepts it. Two properties that held on
the instances were not true of all constants, and say more exactly now what is.
The proof of BacklogBounded does not go through with the ring alone as the bound: pre-trigger
scans of OnTrigger and a software trigger's scan are not in the sum that
adcCheckFatalErrors compares (`Uncounted`), and the callback that fills the
buffer under adcStart may leave a second ring of scans, after which it is the last.
TimerCopiesIntact would be false if it said that no callback delivers an
overwritten scan: a reading lags by what the FIFO may hold, so that scans may have
been overwritten while the count says that they fit; pre-trigger and software
trigger go back to scans counted before; and adcStart may have taken scans that
wait into its hands. The property is the bound these add up to, less
scansAcquiredLastPass, which adcCheckFatalErrors counts a second time. Where a scan
is longer than the FIFO (66 samples, adc.c:1449) and nothing goes back, the bound is
zero. In adc_rearm callbacks come late enough to lap and readings lag.

*AdcRefinementProofs.* To the invariant of the counts, `RInv` adds `Ample`:
the bounds that AdcDriver puts on its own steps, on the scans a callback can
find and the counts that can be asked for, and that scans are left over when
adcStart has filled the buffer. There is a lemma
for each step of an ioctl, with the step of AdcDriver that it is (or none: what
adcStart takes into its local variables still waits). The callback is the
hard one, a composition of operators that count, copy, find the stop, copy
again and give up. `CallbackShown` follows it by what AdcDriver sees of each of
them and ends in four cases: it broke the promise (`Harmful`), nothing is seen
(`Unseen`), it set an error (`Failed`, AdcDriver's `Fault`), or it took and moved scans
(`Moved`, AdcDriver's `Callback`). In the last case the numbers have to be those
that AdcDriver allows, and that is where `Ledger` comes in: what was owed and
asked before says that no more was taken than was asked for, and that an acquisition which
ended has taken all of it (`OwedAndAsked`). Liveness is not
part of it: neither specification is fair.

*AdcContentProofs.* Two invariants beside the counts. `Content`: what has been
handed over stands in the buffer (`Filled`), which is inductive only with where
the heads are (`Placed`: the ring's head is at the scan owed next), with every scan
counted having been in the ring (`Present`), and with the state in the middle of
adcStart's copy, after its memcpy and before the heads move (`Moving`). The lemma
behind it, CopyFills, is about one memCopyToUserBuf: the cells before the new head
hold the new scans, those further back the old ones. `Exact`: how far a search has
come (`Searches`: eventSearchPtr is behind the scans that have been searched, none of which is a
hit), that the board is not too far ahead (`Prompt`), and what has been found. The proof of
EventsExact did not go through without `Unlapped`, and TLC then found the
counterexample with other constants: a callback that comes a whole ring late searches
scans that have been overwritten, and where its reading of the counter lags by the
FIFO adcCheckFatalErrors does not see the overrun. The property says so now: it
is about schedules in which no callback is a whole ring late (the ring is
DMAINPBUFSIZE = 0x20000 samples, device.h:75, and the timer asks for every 10 ms; the
code does nothing to ensure it).

*AdcTimerProofs.* The callback and the ioctls interleave store by store, so the
invariant is about program counters. `Chain`: adcXferThreadRunning is set from
kickstartAdcEvent until the callback that ends the chain of timers has decided
so, and a timer is pending beside a callback only behind the back of one that
adcArm has overtaken. `Guarded`: inAdcEvent belongs to the callback under way.
`Waited`: adcArm is past its wait only when the old chain has ended. `Lost`: a
chain that is said to run and has neither timer nor callback was lost to a
callback that adcArm has overtaken. `Flushed`: what close and rmmod find.

*SessionProofs.* `DevInv` says where db2k_init and db2k_cleanup are
(`Phases`), that the kernel has given to a board exactly what its extension notes
(`Noted`, `Others`), that boards are found and freed in order (`InRow`), what each
step has equipped a board with (`Equipped`), and that the module's count covers
its open files, so that rmmod finds it in use (`Counted`). `SInv` adds the
programs: a file has as many descriptors as processes that hold it, and what no
fork has shared has one holder (`FilesHeld`, `OneHolder`); a process has no handle
twice in its table (`OneEntry`), an entry has a file of the board of its name
(`Served`); what a daqOpen in progress has reached and read (`Opening`, `Typed`);
user_count and the running acquisitions (`Users`, `Running`).

*DacProofs.* The driver's part, `DacInv`: a channel with a transfer has memory,
and the length that dacArm takes is that of the last dacStart (`Transferred`);
while the DMA runs the pad block has one sample for each waveform, the board is
in the ring or the pad, and its FIFO is full (`Fetching`); what the driver
counts is the number of updates at the last callback, over the wraps of the
register (`Counting`); what runs is looked after (`Served`). `Fitting` is WavesFit
made inductive: between the two halves of dacArm a callback of the waveform
before may end what has been set up, and then analog channels that are not in
voltage mode have lost their transfers, which WavesFit excepts, or all of them are in voltage
mode, and then it has to be known that the arm read no NULL buffer and did not
write past the ring. The library's part is `Believed`: when it takes the output
for idle, memory has been let go, and the transfers that an arm has still to start
are of different channels, so that each gets memory of its own length.
InOrder, MaxLen and the FIFO's refill are defined with CHOOSE or by a recursive
function; that they give what their names say is proved by taking the least
cardinality, or the least number of samples, for which it would fail.

OutputStaysExact has the second half of the module. The samples in the ring, the block the DMA is in, and the FIFO
have to be said together. `Laid`: the ring is whole periods of the waveform, each
place a sample of the channel whose turn it is; where the waveform is counted and
fits, `Ending` says where the descriptor is cut and what the pad block repeats.
`Due` is the sample at each place of the endless stream that the board should be
given; `Plays` says that the FIFO holds the next ones of it and that the DMA is
where the one after them is (`Takes`), in a block that ends at a block's end, at
the ring's or at the cut (`Within`). The lemmas follow one sample: what the DMA
takes is what is due, in the ring, into its next block, around it and in the pad
(`FetchPlays`); then a refill (`RefillPlays`) and an update (`UpdatePlays`). `ArmLays`
is dacArm from dacSetupBuffer to the last descriptor, `StartPlays` the board's
start, and every other step either stops the DMA or touches none of this
(`SilentStep`). That the callback never writes the ring of a static waveform, and
that no channel that is put out can go back to voltage mode while the DMA runs
(`Audible`), is part of it.

*AdcSessionProofs.* What the library holds is a copy of what it was last told, so
the invariant `Inv` is about how old that copy may be at each step of a call.
`Owes`, `Keeps` and `Going` are types: the driver's counts add up, a handle that
has a buffer has its length, and a call is a sequence in which a step that needs the one before it
comes right after it (`Flow`), which error paths, waits and inserted steps keep
(`FlowTail`, `FlowOne`, `CleanFlow`). `Programmed`: an example opens the device first and
closes it last, so that only daqOpen meets a closed handle. `Idle` is LibraryKnows
with what makes it inductive: a closed handle and the step that has just disarmed
leave the driver idle. `Obeyed` is InSync in terms of what the driver was last asked
for, except while daqOpen has still to set its defaults (`Fresh`) and between the
configuration that apiAdcReadSample sends and its arm (`Sampling`). `Mapping` and
`Reading`: head, tail and count are in a mapped buffer, and a copy is of no more than there is. `Followed`
says what ReadsContinue rests on: the head is the count modulo the length, the tail is
congruent to the scans read, what is available is no more than the difference, and the count
is not ahead of the driver's unless a new transfer has just set that to 0. The lemmas
are about one status (`StatusFacts`, and `StatusFollows`: which looks keep this, over the wrap of the
count), one copy (`LoadedFacts`), the cells of a copy (`CellOfScan`, `NewestCellOfScan`) and which scan the
driver has in a cell (`ScanOfCell`); then there is one lemma for each step. The
proof corrected the model twice. The step for
daqAdcTransferStart did not go through when the driver refuses it: the library has
set up its head and tail and then follows the count of the transfer before. TLC
confirmed it with buffers of two lengths, which take too long for a run; the
scans read are now unknown from there on, an exception that ReadsContinue names. And head and tail are bounded only
for a buffer that is mapped and while nothing undefined has happened, which TypeOK says now.

*ChainProofs.* The code never compares an address with the buffer's end: it
subtracts what a block took from what is left, so the invariant `IInv` has to say
where that leads. `Building` says that block i, as far as the loop has come,
begins at i * Page - offset % Page of the buffer and ends at the next page or at
the buffer's end; `Built` says the same of all blocks and the addresses between
them once the loop is done. The lemmas are facts about the remainder
(`ModUnique`, `NoMultipleBetween`), one about the last block, and one for each
action. `Sane` asks that the chain is aligned to a descriptor, an input ring is
whole pages, an output ring is a page at least, and that with its offset a ring
fits in the pages of its chain.

Only model-checked: the scan counter (WrapCounts, SoftTaken), and the modules of
run services but for the timer and the chains.
Liveness (endings, WrapExact, ArmEnds) is out of the prover's reach, and so are
ENABLED and what a recursive definition computes for every input. LevelEvent uses
the community module Bitwise and has no theorems for that reason.

## Findings

Four have a run:

* scan_verify: a failed second look just after the register came round ends in
  a DerrOverrun that was none.
* timer_cleanup: db2k_cleanup deletes adc_timer only under ADCTIMER_ADDED, which
  nothing sets.
* mapped: db2k_mmap shows out_buf to a mapping that is not writable, and linMap
  asks for PROT_READ; adcStart has the callback fill in_buf, and the address of
  a program's own buffer (adcXferBuf) is not used by the driver at all. What
  daqAdcTransferBufData copies is zeroes. The other properties of the library
  are about the cells it copies, which are the right ones.
* overrun: processNewData returns DerrNoError for samples that have been
  overwritten, unless a disk file is open or a channel is processed.

Met while modelling and without a property: a callback during an ioctl whose copy
reaches the head of in_buf overwrites the answer that db2k_ioctl is about to
give (linux_drvrint.c:1079, 1106); AdcSession takes answers as adcGetStatus
gave them.

Met while modelling, and described by the excuses in the properties: a timer
lost on a multiprocessor (AdcTimer, `overtook`); a carry made up by a callback
inside adcSoftTrig (ScanCounter, `raced`); adcStart delivers a backlog without
asking whether the board has lapped the ring (AdcAcquisition, `stale`:
TimerCopiesIntact is about callbacks only); a callback that ends the acquisition
after adcStart has set userInpBuf and before it sets DaafTransferActive
(adc.c:1653-1660) leaves a transfer with a NULL userInpBuf (1627), to which the
backlog is copied with a length computed from it (2001-2003; AdcAcquisition,
`raced`); what the sections on
DacSession, AcqSetup, ExpansionCards, Sessions, DioPorts, CalEeprom,
RawConversion and DescriptorChain list. Without an excuse, because nothing the
properties compare shows it: adcArm's wait for the configuration pipe ends with
timeoutCount at 0xffffffff and is tested for 0; TrigLocation may be one past the
scan; pre-trigger scans are not part of the sum that adcCheckFatalErrors
compares with the ring; a refused adcConfigure makes the next adcStart of the
acquisition it was refused for fail with DerrScanConfig (adc.c:1586);
dacDisarm and uninitializeDac set dacOutbuffer to NULL before they free it.

## Not modelled, and the plan

Left out, with the reason:

* apicvt.c: thermocouple, RTD, zero and linear conversions, polynomials in
  floating point without interaction; apictr.c: for a 9513, which these boards
  have not, every call is refused; apiintr.c, apiw32.c: compiled out; topbit.h:
  the FPGA image.
* dacWriteMany, single values, predefined shapes, waveforms from a disk file
  (refused at arm), uninitializeDac and the DMA self test.
* Transfers of packed samples (WaveBook), the content of the disk file,
  daqAdcCalcTrig; reading back revisions of cards and the waits between messages.
* Error handlers, messages, device properties, hardware information; access to
  single registers beyond those that keep state.
* Examples for outputs, counters and pins: straight lines of calls that their
  modules take in any order.
* A transfer buffer longer than in_buf or shorter than one scan: adc.c does not
  ask, the first writes past the buffer and the second never ends; the models
  assume a request between the two.

To come, in this order:

1. Theorems: WrapCounts and SoftTaken of ScanCounter.
2. `IoctlPath`: in_buf as the argument of two ioctls at once (the library's
   mutex is a stub) and as the target of a callback while an ioctl answers.
3. For the outputs: fairness and the end of a counted waveform, an abstract
   player that DacWaveform implements where `hist.clean` holds.
