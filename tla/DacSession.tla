----------------------------- MODULE DacSession -----------------------------
(***************************************************************************)
(* Who uses the analog-output engine of the driver: a program that issues  *)
(* the ioctls itself, or the library's daqDac calls (src/apidac.c), which  *)
(* keep a copy of what the program asked for and send to the driver what   *)
(* they believe has changed.  A handle has the analog channels and the     *)
(* digital port; their two dacWaveActive flags are always set and cleared  *)
(* together and are one here.                                              *)
(***************************************************************************)
EXTENDS DacWaveform

CONSTANT Uses   \* the callers, each with the modes and waveforms it uses

Callers == DOMAIN Uses

ASSUME UsesAssumption ==
  /\ Callers \subseteq {"direct", "library"}
  /\ \A who \in Callers : /\ Uses[who].waves \subseteq Chans \X Lens
                           /\ Uses[who].modes \subseteq {"voltage", "static", "dynamic"}

VARIABLES
  caller,  \* who the program is
  lib      \* the library's ApiDacT of the session

vars == <<pde, board, call, hist, caller, lib>>

(* wave: for each channel the mode, the length of the buffer and whether   *)
(* it is new to the driver, the configuration and whether that is new.     *)
(* numWave: dacNumWaveActive is not 0; todo: daqDacWaveArm's loop; refused *)
(* (history): the driver refused a mode that the library took.             *)
(* A buffer that was never set is NULL, one sample long: its copy fails,   *)
(* dacStart goes on, and what it gives stands for the channel's samples.   *)
NewWave == [mode |-> "voltage", len |-> 1, bufNew |-> TRUE,
            conf |-> InitPde.conf, confNew |-> TRUE]
NewConf == [infinite |-> TRUE, stop |-> 0, trig |-> "immediate"]

InitLib == [active |-> FALSE, numWave |-> FALSE, todo |-> <<>>, arming |-> FALSE,
            wave |-> [c \in Chans |-> [NewWave EXCEPT !.conf = NewConf]],
            refused |-> {}]

Init == DacInit /\ caller \in Callers /\ lib = InitLib
-----------------------------------------------------------------------------
(* A program that issues the ioctls itself, in any order.                  *)
Direct == caller = "direct" /\ Quiet /\ UNCHANGED <<caller, lib>>

Waveforms == Uses[caller].waves
Modes == Uses[caller].modes
Used  == {w[1] : w \in Waveforms}

DirectMode      == Direct /\ \E c \in Used, m \in Modes : DacMode(c, m)
DirectConfigure == Direct /\ \E conf \in Confs : DacConfigure(conf)
DirectStart     == Direct /\ \E w \in Waveforms : DacStart(w[1], w[2])
DirectNoMemory  == Direct /\ \E c \in Used : DacStartNoMemory(c)
DirectArm       == Direct /\ (DacArmRefused \/ DacArmFails \/ DacArmBegin)
DirectDisarm    == Direct /\ DacDisarm
DirectStop      == Direct /\ DacStop
DirectSoftTrig  == Direct /\ DacSoftTrig
DirectGetStatus == Direct /\ DacGetStatus
-----------------------------------------------------------------------------
(* The library.                                                            *)
Library == caller = "library" /\ Quiet /\ ~lib.arming /\ UNCHANGED caller
KeepDriver == UNCHANGED dacVars
IsWave(c) == lib.wave[c].mode # "voltage"

(* daqDacSetOutputMode takes the mode before it asks the driver.           *)
LibSetOutputMode(c, m) ==
  /\ Library
  /\ DacMode(c, m)
  /\ lib' = [lib EXCEPT !.wave[c].mode = m,
                        !.refused = IF ModeRefused(pde, c, m) THEN @ \cup {c} ELSE @ \ {c}]

LibSetBuffer(c, len) ==
  /\ Library /\ IsWave(c) /\ ~lib.active
  /\ lib' = [lib EXCEPT !.wave[c] = [@ EXCEPT !.len = len, !.bufNew = TRUE]]
  /\ KeepDriver

(* daqDacWaveSetMode, SetTrig, SetClockSource, SetFreq.                    *)
LibSetConf(c, conf) ==
  /\ Library /\ IsWave(c) /\ ~lib.active
  /\ lib' = [lib EXCEPT !.wave[c] = [@ EXCEPT !.conf = conf, !.confNew = TRUE]]
  /\ KeepDriver

(* daqDacWaveArm.  Nothing clears dacWaveActive when it fails.             *)
LibArmBegin ==
  /\ Library /\ ~lib.active
  /\ LET waves == {c \in Chans : IsWave(c)} IN
     lib' = [lib EXCEPT !.active = TRUE, !.numWave = waves # {}, !.arming = TRUE,
                        !.todo = InOrder({c \in waves : lib.wave[c].bufNew})]
  /\ KeepDriver

LibArming == caller = "library" /\ Quiet /\ lib.arming /\ UNCHANGED caller
Failed == [lib EXCEPT !.arming = FALSE, !.todo = <<>>]

LibArmStart ==
  /\ LibArming /\ lib.todo # <<>>
  /\ LET c == Head(lib.todo)
         w == lib.wave[c]
     IN  /\ pde' = Start(IF w.confNew THEN [pde EXCEPT !.conf = w.conf] ELSE pde, c, w.len)
         /\ hist' = [hist EXCEPT !.overflow = pde'.chan[c].room < w.len, !.owner = c]
         /\ lib' = [lib EXCEPT !.todo = Tail(@),
                               !.wave[c] = [@ EXCEPT !.confNew = FALSE, !.bufNew = FALSE]]
  /\ UNCHANGED <<board, call>>

(* DAC_CONFIG refuses a period it has already stored the rest for.         *)
LibArmConfigFails ==
  /\ LibArming /\ lib.todo # <<>> /\ lib.wave[Head(lib.todo)].confNew
  /\ DacConfigure(lib.wave[Head(lib.todo)].conf)
  /\ lib' = Failed

LibArmStartFails ==
  /\ LibArming /\ lib.todo # <<>>
  /\ LET c == Head(lib.todo)
         w == lib.wave[c]
     IN  /\ pde.chan[c].room = 0
         /\ pde' = [pde EXCEPT !.conf = IF w.confNew THEN w.conf ELSE @,
                               !.chan[c].mdl = FALSE]
         /\ lib' = [Failed EXCEPT !.wave[c].confNew = FALSE]
  /\ UNCHANGED <<board, call, hist>>

LibArm ==
  /\ LibArming /\ lib.todo = <<>>
  /\ \/ (DacArmRefused \/ DacArmFails) /\ lib' = Failed
     \/ DacArmBegin /\ lib' = [lib EXCEPT !.arming = FALSE]

(* daqDacWaveDisarm: DAC_DISARM and daqDacTransferStop, DAC_STOP.          *)
WaveDisarm ==
  IF lib.active
  THEN pde' = Stop(Disarm(pde)) /\ lib' = [lib EXCEPT !.active = FALSE]
  ELSE UNCHANGED <<pde, lib>>

LibDisarm ==
  /\ Library /\ lib.active /\ WaveDisarm
  /\ hist' = Rested(hist)
  /\ BoardRests
  /\ UNCHANGED call

LibSoftTrig ==
  /\ Library /\ (\E c \in Chans : IsWave(c)) /\ DacSoftTrig /\ UNCHANGED lib

(* daqDacTransferGetStat: an error is all it reports; a waveform that has  *)
(* ended it disarms.                                                       *)
LibGetStat ==
  /\ Library /\ lib.numWave
  /\ IF pde.error # "None" THEN pde' = [pde EXCEPT !.error = "None"] /\ UNCHANGED lib
     ELSE IF ~pde.active THEN WaveDisarm
     ELSE UNCHANGED <<pde, lib>>
  /\ hist' = Rested(hist)
  /\ BoardRests
  /\ UNCHANGED call

(* The program ends, by daqClose or without, and db2k_flush disarms; the   *)
(* next one opens the board.  MsgInit sends the mode of the analog         *)
(* channels to the driver, but not that of the digital one.                *)
OpenedAsIs(p) == p  \* mutant: MsgInit does not send the modes

Opened(p) == [p EXCEPT !.chan = [c \in Chans |->
                IF c = Digital THEN p.chan[c] ELSE [p.chan[c] EXCEPT !.mode = "voltage"]]]

LibReopen ==
  /\ caller = "library" /\ Quiet /\ UNCHANGED caller
  /\ \/ lib.active /\ pde' = Opened(Stop(Disarm(pde)))
     \/ pde' = Opened(Disarm(pde))
  /\ lib' = InitLib
  /\ hist' = Rested(hist)
  /\ BoardRests
  /\ UNCHANGED call

LibraryNext ==
  \/ \E c \in Used :
       \/ \E m \in Modes : LibSetOutputMode(c, m)
       \/ \E conf \in Confs : LibSetConf(c, conf)
  \/ \E w \in Waveforms : LibSetBuffer(w[1], w[2])
  \/ LibArmBegin \/ LibArmStart \/ LibArmConfigFails \/ LibArmStartFails \/ LibArm
  \/ LibDisarm \/ LibSoftTrig \/ LibGetStat \/ LibReopen

DirectNext ==
  \/ DirectMode \/ DirectConfigure \/ DirectStart \/ DirectNoMemory \/ DirectArm
  \/ DirectDisarm \/ DirectStop \/ DirectSoftTrig \/ DirectGetStatus

DriverNext ==
  /\ DacArmActive \/ DacArmDone \/ DacArmTimeout \/ DacEventL \/ BoardUpdate \/ BoardFault
  /\ UNCHANGED <<caller, lib>>

Next == DirectNext \/ LibraryNext \/ DriverNext

Spec == Init /\ [][Next]_vars
-----------------------------------------------------------------------------
TypeOK ==
  /\ caller \in Callers
  /\ call \in {"none", "armed", "wait"}
  /\ \A c \in Chans : /\ pde.chan[c].head \in 0..MaxLen
                      /\ pde.chan[c].mdl => pde.chan[c].buf
  /\ pde.ring \in 1..RingSamples /\ pde.last \in 0..RingSamples
  /\ board.at < RingSamples /\ Len(board.fifo) <= FifoDepth

(* The waveform has not been stopped without disarming it, dacArm's wait   *)
(* has not run out, no callback of the waveform before it came in the      *)
(* middle of dacArm and ended it.                                          *)
Watched == ~hist.stopped /\ ~hist.late /\ ~hist.overtook

(* A static waveform whose channels were all armed at the start of a       *)
(* transfer of the common length comes out sample for sample, each channel *)
(* its own, over the wraps of ring, FIFO and descriptors, and a counted    *)
(* one that fits the ring holds its last sample after it (dac.c:604-630,   *)
(* 684-745).                                                               *)
OutputExact == hist.clean => ~hist.bad

(* What dacGetStatus reports is what the board had put out at the last     *)
(* callback, over the wraps of the 16-bit counter, and never more, however *)
(* the waveform ended (dac.c:1147-1160, 1190-1197, 1337-1353).             *)
CountsHonest ==
  call = "none" /\ pde.n > 0 /\ Watched =>
    /\ pde.dmaed <= hist.seen * pde.n
    /\ pde.active => pde.dmaed = hist.seen * pde.n

(* An active waveform has its DMA and a timer that will look after it.     *)
ActiveServed ==
  pde.active /\ call = "none" /\ Watched => pde.dma /\ pde.timer /\ ~pde.die

(* After a fatal error nothing is left running, and the program finds it.  *)
ErrorQuiesces ==
  pde.error # "None" /\ call = "none" => ~pde.active /\ ~pde.dma /\ ~pde.pacer

(* The waveforms of an arm have one length and fit the ring, unless a      *)
(* channel in voltage mode still has a transfer, which dacSetupBuffer      *)
(* compares in the place of one of them, or one channel has none, or the   *)
(* last dacStart, whose length is taken, was of a channel that has lost    *)
(* its transfer since (dac.c:783-861, 1133).                               *)
WavesFit ==
  call = "armed" /\ ~pde.dynamic =>
    \/ \E c \in Chans : pde.chan[c].mdl # (pde.chan[c].mode # "voltage")
    \/ ~pde.chan[hist.owner].mdl
    \/ /\ ~hist.spill /\ ~hist.null
       /\ \A c \in pde.enabled : pde.chan[c].size = pde.single

(* With the library no transfer is copied over the end of the memory       *)
(* kmalloc gave to a shorter one (dac.c:1106-1118): whatever ended the     *)
(* waveform before, the driver has been disarmed, and its memory let go,   *)
(* before the library takes new buffers.                                   *)
LibraryCopiesFit == caller = "library" => ~hist.overflow

(* When the library believes the output idle, it is.                       *)
IdleMeansIdle ==
  caller = "library" /\ ~lib.active => ~pde.active /\ ~pde.dma /\ call = "none"

(* Neither the driver nor the library takes an output for served, or for   *)
(* idle, that is not.                                                      *)
ActivityAgrees == ActiveServed /\ IdleMeansIdle

(* No waveform is copied over the end of the ring or of its memory, and no  *)
(* head or count leaves its range (TypeOK).                                *)
CopiesFit == TypeOK /\ WavesFit /\ LibraryCopiesFit

(* Library and driver agree on the mode of a channel, unless the driver    *)
(* refused a change the library has taken, or another program left the     *)
(* digital port in a mode.                                                 *)
ModesAgree ==
  caller = "library" =>
    \A c \in Chans : c # Digital /\ c \notin lib.refused
                       => lib.wave[c].mode = pde.chan[c].mode
=============================================================================
