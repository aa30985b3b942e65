---------------------------- MODULE AdcLiveness ----------------------------
(***************************************************************************)
(* AdcAcquisition with the fairness of its schedule.  A callback that      *)
(* finds nothing to do leaves the state as it was, so the variable tick    *)
(* turns with every callback and makes each one a step; the weak fairness  *)
(* of the timer, of an ioctl in progress and of the pacer clock is then    *)
(* said with their guards, which are plain state predicates.               *)
(***************************************************************************)
EXTENDS AdcAcquisition

VARIABLE tick

liveVars == <<pde, scans, fault, call, hist, tick>>

LiveInit == Init /\ tick = 0

Tick == AdcEventL /\ tick' = 1 - tick

LiveNext ==
  \/ Tick
  \/ (Program \/ Continue \/ Board \/ Undefined) /\ UNCHANGED tick

TimerPending == pde.running /\ ~pde.wild
IoctlGoes    == call.at # "none" /\ ~pde.wild
PacerRuns    == pde.pacer = "on" /\ scans < MaxScans /\ ~pde.wild
                /\ (pde.running => scans - pde.current < MaxLatency)

(* The kernel calls a timer that is set, again and again.                  *)
FairTimer == []<>~TimerPending \/ []<><<Tick>>_tick

(* An ioctl in progress returns: each of its steps leads nearer to its end. *)
FairIoctl == []<>~IoctlGoes

(* A pacer clock that is on takes every scan it has room for: scans grows  *)
(* to MaxScans or the clock is turned off or waits for the callback.       *)
FairPacer == []<>~PacerRuns

LiveSpec ==
  LiveInit /\ [][LiveNext]_liveVars /\ FairTimer /\ FairIoctl /\ FairPacer

(* An acquisition of a scan count without a trigger ends by itself: it     *)
(* does not stay active unless adcStop, called by the program or for a     *)
(* full buffer, has told the timer to die (checkForEvent, adcEventL).      *)
AcquisitionEnds == pde.acqActive ~> ~pde.acqActive \/ pde.die
=============================================================================
