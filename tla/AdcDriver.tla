----------------------------- MODULE AdcDriver -----------------------------
(***************************************************************************)
(* What the analog-input ioctls promise to the library, without ring,      *)
(* timer and heads: an acquisition that is armed takes scans, a transfer   *)
(* that is active receives each of them once, up to the size of its buffer *)
(* unless it is cyclic, the scans that find no transfer wait, and an       *)
(* acquisition of a scan count ends with exactly that many.  AdcRefinement *)
(* shows that AdcAcquisition keeps these promises; AdcSession builds the   *)
(* library on them.                                                        *)
(***************************************************************************)
EXTENDS Integers

CONSTANTS
  Totals, \* the scan counts that may be asked for; 0 is none (endless, a level)
  Errors, \* what may go wrong
  MaxNew  \* bound: scans that one callback finds

VARIABLES
  drv,    \* the driver, as far as its ioctls show it
  broken  \* a callback hit an ioctl where the two do not commute

(* acq, xfer: DaafAcqActive, DaafTransferActive; ok: scanConfiguredOK;     *)
(* asked, total: the scan count of the configuration and of the armed      *)
(* acquisition; taken: scans it owes the program so far, delivered or not; *)
(* waiting: those still in the ring; count: those in the program's buffer. *)
InitDrv ==
  [acq |-> FALSE, xfer |-> FALSE, ok |-> FALSE, error |-> "None",
   asked |-> 0, total |-> 0, taken |-> 0, waiting |-> 0, count |-> 0,
   size |-> 1, cyclic |-> FALSE]

Init == drv = InitDrv /\ broken = FALSE
-----------------------------------------------------------------------------
(* The ioctls, as operators from a record to a record.                     *)
Refused(d)       == [d EXCEPT !.ok = FALSE]
Configured(d, n) == [d EXCEPT !.ok = TRUE, !.asked = n]
Disarmed(d)      == [d EXCEPT !.acq = FALSE, !.waiting = 0]
Stopped(d)       == [d EXCEPT !.xfer = FALSE]
Cleared(d)       == [d EXCEPT !.taken = 0, !.waiting = 0, !.count = 0]
Armed(d)         == [Cleared(d) EXCEPT !.acq = TRUE, !.error = "None", !.total = d.asked]
Started(d, size, cyclic) ==
  [d EXCEPT !.xfer = TRUE, !.count = 0, !.size = size, !.cyclic = cyclic]

CanArm(d)   == ~d.acq /\ d.ok
CanStart(d) == ~d.xfer /\ d.ok

(* n scans handed over: what the buffer has room for; the rest waits, and  *)
(* the transfer ends.                                                      *)
Full(d, n) == ~d.cyclic /\ d.count + n > d.size
Handed(d, n) ==
  IF ~d.xfer THEN [d EXCEPT !.waiting = @ + n]
  ELSE IF Full(d, n)
       THEN [d EXCEPT !.waiting = @ + n - (d.size - d.count), !.count = d.size, !.xfer = FALSE]
       ELSE [d EXCEPT !.count = @ + n]

Took(d, n) == Handed([d EXCEPT !.taken = @ + n], n)
Ended(d)   == [d EXCEPT !.acq = FALSE, !.xfer = FALSE]
-----------------------------------------------------------------------------
Configure ==
  IF drv.acq THEN drv' = Refused(drv)
  ELSE \E n \in Totals : drv' \in {Configured(drv, n), [Refused(drv) EXCEPT !.asked = n]}

Arm     == CanArm(drv) /\ drv' \in {Armed(drv), Cleared(drv)}
Disarm  == drv' = Disarmed(drv)
Stop    == drv' = Stopped(drv)
Status  == drv' = [drv EXCEPT !.error = "None"]
Start   == CanStart(drv) /\ \E c \in BOOLEAN : drv' = Started(drv, drv'.size, c)

(* adcStart hands over the scans that waited, and ends the transfer if no  *)
(* acquisition is active (any more).                                       *)
Backlog   == drv' = Handed([drv EXCEPT !.waiting = 0], drv.waiting)
NoBacklog == ~drv.acq /\ drv' = Stopped(drv)

(* A timer callback: new scans, the end of the acquisition or an error.    *)
Callback ==
  /\ drv.acq
  /\ \E n \in 0..MaxNew :
       \/ (drv.total = 0 \/ drv.taken + n < drv.total) /\ drv' = Took(drv, n)
       \/ drv.total \in {0, drv.taken + n} /\ drv' = Ended(Took(drv, n))

(* An error also forgets the scans that wait, but for those adcStart holds. *)
Fault ==
  /\ drv.acq
  /\ \E e \in Errors, w \in 0..drv.waiting :
       drv' = [Ended(drv) EXCEPT !.error = e, !.waiting = w]

Next ==
  \/ broken'
  \/ /\ UNCHANGED broken
     /\ \/ Configure \/ Arm \/ Disarm \/ Stop \/ Status \/ Start
        \/ Backlog \/ NoBacklog \/ Callback \/ Fault

Spec == Init /\ [][Next]_<<drv, broken>>
=============================================================================
