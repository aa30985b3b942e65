---------------------------- MODULE MCScanCounter ----------------------------
(* Instances of ScanCounter for TLC.  In one the callback alone reads, and  *)
(* both counts come round; in the other one, with scans of one sample and   *)
(* no trigger of the board's own, adcSoftTrig reads in between and the      *)
(* register comes round; a behaviour is followed as long as SoftTaken says  *)
(* something of it.  `part` tells which one a behaviour is of.              *)
EXTENDS ScanCounter

VARIABLE part

Soft == INSTANCE ScanCounter WITH
  ScanSize <- 1, FifoDepth <- 2, Word <- 4, Dword <- 8, HwTrigger <- FALSE,
  Readers <- {"timer", "ioctl"}, MaxGap <- 1, MaxScans <- 5

MCInit ==
  \/ part = "wrap" /\ Init
  \/ part = "soft" /\ Soft!Init
MCNext ==
  /\ \/ part = "wrap" /\ Next
     \/ part = "soft" /\ IF Soft!Honest THEN Soft!Next ELSE UNCHANGED vars
  /\ UNCHANGED part

Alone(A) == part = "wrap" /\ A /\ UNCHANGED part
MCSpec ==
  /\ MCInit /\ [][MCNext]_<<vars, part>>
  /\ WF_<<vars, part>>(Alone(Read("timer") \/ ComputeScansAcquired))
  /\ WF_<<vars, part>>(Alone(BoardSample)) /\ WF_<<vars, part>>(Alone(DmaMove))

(* With the callback alone: what readAcqScanCounter counts is in the ring,  *)
(* and computeScansAcquired adds it up, ...                                *)
WrapCounts == part = "wrap" => TypeOK /\ CountIsInRing /\ WrapLosesOne

(* ... and that the readings come to report every scan.                    *)
WrapExact == part = "wrap" => EventuallyExact

(* With adcSoftTrig: a callback never finds scans that were not taken.     *)
SoftTaken == part = "soft" => Soft!AcquiredWereTaken
=============================================================================
