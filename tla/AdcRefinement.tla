--------------------------- MODULE AdcRefinement ---------------------------
(* The engine of the driver implements what AdcDriver promises.            *)
EXTENDS AdcAcquisition

(* A stop on a scan count makes a total; a scan waits while it is in the   *)
(* ring or in the hands of adcStart.                                       *)
TotalOf(c) == IF c.stop = "ScanCount" THEN c.pre + c.post ELSE 0

(* adcGetStatus and the conditions of the ioctls, of the record d, while   *)
(* adcStart holds n scans of the acquisition armed with request armed.     *)
ViewOf(d, n, armed) ==
  [acq |-> d.acqActive, xfer |-> d.transferActive, ok |-> d.configured,
   error |-> d.error, asked |-> TotalOf(d), total |-> TotalOf(armed),
   taken |-> d.sent + d.toMove + d.dropped + n,
   waiting |-> d.toMove + n, count |-> d.inUser,
   size |-> d.size, cyclic |-> d.cyclic]

DriverView == ViewOf(pde, call.n, hist.armed)

(* What a request may ask for: adcConfigure that refuses a request has     *)
(* taken its stop event, but keeps the counts of the one before.           *)
TotalsAsked == {0} \cup {c.pre + c.post : c \in Configs}

(* A callback finds at most the scans of the acquisition and the one that  *)
(* adcSoftTrig may name before the first.                                  *)
Driver == INSTANCE AdcDriver WITH
            drv <- DriverView, broken <- hist.raced \/ pde.wild,
            Totals <- TotalsAsked, Errors <- {"Hardware", "Overrun"},
            MaxNew <- MaxScans + 1

(* Whatever the interleaving of callbacks with the steps of the ioctls,    *)
(* what the ioctls show of the acquisition is a behaviour of AdcDriver,    *)
(* until a callback hits one of the places where the two do not commute.   *)
ImplementsDriver == Driver!Spec
=============================================================================
