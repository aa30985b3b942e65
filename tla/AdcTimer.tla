------------------------------ MODULE AdcTimer ------------------------------
(***************************************************************************)
(* The life of the acquisition timer (db2kdriver/adc.c kickstartAdcEvent,  *)
(* adcEventL, the waiting loop of adcArm, adcStop; linux_drvrint.c         *)
(* db2k_open, db2k_flush, db2k_close, db2k_cleanup), store by store.       *)
(* AdcAcquisition takes the callback for one step, which it is on a        *)
(* uniprocessor; here it has a step for each access to what the ioctls     *)
(* share with it, and on a multiprocessor (SMP) they interleave.           *)
(*                                                                         *)
(* Ioctls come from one thread.  The callback is not started again while   *)
(* it runs: a timer that it or adcArm adds expires 10 ms later.            *)
(***************************************************************************)
EXTENDS Naturals

CONSTANTS SMP   \* the callback and an ioctl run at the same time

VARIABLES
  flag,   \* acq: DaafAcqActive, dma: dmaInpActive, running: adcXferThreadRunning,
          \* die: adcThreadDie, inEvent: inAdcEvent
  timer,  \* adc_timer is pending in the kernel
  cb,     \* adcEventL: the next step, and bCallAgain
  call,   \* the ioctl, open or close in progress: the next step
  module, \* "closed", "open" or, after rmmod, "gone"
  reply,  \* what the last adcArm returned
  hist    \* history: a pending timer was added again; an arm got past its wait
          \* while the callback that let it was not quite at its end

vars == <<flag, timer, cb, call, module, reply, hist>>

Init ==
  /\ flag = [acq |-> FALSE, dma |-> FALSE, running |-> FALSE, die |-> TRUE,
             inEvent |-> FALSE]
  /\ timer = FALSE
  /\ cb = [at |-> "idle", again |-> FALSE]
  /\ call = "none" /\ module = "closed" /\ reply = "none"
  /\ hist = [twice |-> FALSE, overtook |-> FALSE]

AddTimer ==
  /\ timer' = TRUE
  /\ hist' = [hist EXCEPT !.twice = @ \/ timer]
-----------------------------------------------------------------------------
(* adcEventL.  The kernel takes the timer off its list and calls it.       *)
CbStep(from, to) == cb.at = from /\ cb' = [cb EXCEPT !.at = to]
KeepCall == UNCHANGED <<call, module, reply>>

CbFire ==
  /\ timer /\ CbStep("idle", "enter") /\ timer' = FALSE
  /\ KeepCall /\ UNCHANGED <<flag, hist>>

CbEnter ==
  /\ CbStep("enter", IF flag.inEvent THEN "idle" ELSE "die?")
  /\ flag' = [flag EXCEPT !.inEvent = TRUE]
  /\ KeepCall /\ UNCHANGED <<timer, hist>>

CbLooksAtDie ==
  /\ cb.at = "die?"
  /\ cb' = IF flag.die THEN [at |-> "end", again |-> FALSE] ELSE [cb EXCEPT !.at = "dma?"]
  /\ KeepCall /\ UNCHANGED <<flag, timer, hist>>

CbLooksAtDma ==
  /\ cb.at = "dma?"
  /\ cb' = IF flag.dma THEN [cb EXCEPT !.at = "work"] ELSE [at |-> "end", again |-> FALSE]
  /\ KeepCall /\ UNCHANGED <<flag, timer, hist>>

(* checkEventsAndMoveData: it goes on, the buffer is full (adcStop), or a  *)
(* stop event or an error ends the acquisition (adcDisarm and adcStop).    *)
CbGoesOn ==
  /\ CbStep("work", "result")
  /\ KeepCall /\ UNCHANGED <<flag, timer, hist>>

CbStopsTransfer ==
  /\ CbStep("work", "result")
  /\ flag' = [flag EXCEPT !.die = TRUE]
  /\ KeepCall /\ UNCHANGED <<timer, hist>>

CbDisarms ==
  /\ CbStep("work", "disarmed")
  /\ flag' = [flag EXCEPT !.dma = FALSE]
  /\ KeepCall /\ UNCHANGED <<timer, hist>>

CbClearsActive ==
  /\ CbStep("disarmed", "stops")
  /\ flag' = [flag EXCEPT !.acq = FALSE]
  /\ KeepCall /\ UNCHANGED <<timer, hist>>

CbStops ==
  /\ CbStep("stops", "result")
  /\ flag' = [flag EXCEPT !.die = TRUE]
  /\ KeepCall /\ UNCHANGED <<timer, hist>>

CbReturns ==
  /\ cb.at = "result"
  /\ cb' = [at |-> "end", again |-> flag.dma]
  /\ KeepCall /\ UNCHANGED <<flag, timer, hist>>

CbSetsRunning ==
  /\ CbStep("end", "leave")
  /\ flag' = [flag EXCEPT !.running = cb.again]
  /\ KeepCall /\ UNCHANGED <<timer, hist>>

CbLeaves ==
  /\ CbStep("leave", "timer")
  /\ flag' = [flag EXCEPT !.inEvent = FALSE]
  /\ KeepCall /\ UNCHANGED <<timer, hist>>

DelTimer == timer' = FALSE /\ UNCHANGED hist

CbTimerNotKept ==  \* mutant: no add_timer at the end
  CbStep("timer", "idle") /\ DelTimer /\ KeepCall /\ UNCHANGED flag

CbTimer ==
  /\ CbStep("timer", "idle")
  /\ IF cb.again THEN AddTimer ELSE DelTimer
  /\ KeepCall /\ UNCHANGED flag

Callback ==
  \/ CbFire \/ CbEnter \/ CbLooksAtDie \/ CbLooksAtDma \/ CbGoesOn \/ CbStopsTransfer
  \/ CbDisarms \/ CbClearsActive \/ CbStops \/ CbReturns \/ CbSetsRunning \/ CbLeaves
  \/ CbTimer
-----------------------------------------------------------------------------
(* The ioctls, which on a uniprocessor run only while the callback does    *)
(* not.                                                                    *)
Runs == (SMP \/ cb.at = "idle") /\ module # "gone"
Step(from, to) == Runs /\ call = from /\ call' = to
Begin(to) == Step("none", to) /\ module = "open"
KeepRest == UNCHANGED <<timer, cb, module, hist>>

ArmBegin ==
  /\ Begin(IF flag.acq THEN "none" ELSE "armDisarm")
  /\ reply' = IF flag.acq THEN "AcqArmed" ELSE "none"
  /\ KeepRest /\ UNCHANGED flag

ArmDisarm ==
  /\ Step("armDisarm", "armFlags")
  /\ flag' = [flag EXCEPT !.dma = FALSE]
  /\ KeepRest /\ UNCHANGED reply

ArmFlags ==
  /\ Step("armFlags", "armRunning")
  /\ flag' = [flag EXCEPT !.acq = FALSE]
  /\ KeepRest /\ UNCHANGED reply

ArmLooks ==
  /\ Step("armRunning", IF flag.running THEN "armWait" ELSE "armStart")
  /\ flag' = [flag EXCEPT !.die = @ \/ flag.running]
  /\ KeepRest /\ UNCHANGED reply

(* The loop waits 100 ms, ten periods of the timer, so that it runs out    *)
(* only when no callback is under way and none will come.                  *)
ArmWaitEnds ==
  /\ Step("armWait", "armStart") /\ ~flag.running
  /\ KeepRest /\ UNCHANGED <<flag, reply>>

ArmTimeout ==
  /\ Step("armWait", "none") /\ flag.running /\ ~timer /\ cb.at = "idle"
  /\ reply' = "AcqArmed"
  /\ KeepRest /\ UNCHANGED flag

ArmStart ==
  /\ Step("armStart", "armPipe")
  /\ flag' = [flag EXCEPT !.dma = TRUE]
  /\ KeepRest /\ UNCHANGED reply

ArmInitFailure ==
  /\ Step("armPipe", "none")
  /\ flag' = [flag EXCEPT !.dma = FALSE, !.acq = FALSE]
  /\ reply' = "InitFailure"
  /\ KeepRest

ArmActive ==
  /\ Step("armPipe", "kick")
  /\ flag' = [flag EXCEPT !.acq = TRUE]
  /\ KeepRest /\ UNCHANGED reply

(* kickstartAdcEvent: KickFindsNoCallback says why its own wait is dead.   *)
KickWithoutRunning ==  \* mutant: adcXferThreadRunning is left to the callback
  /\ Step("kick", "kickAdd")
  /\ flag' = [flag EXCEPT !.die = FALSE, !.inEvent = FALSE]
  /\ KeepRest /\ UNCHANGED reply

Kick ==
  /\ Step("kick", "kickAdd") /\ ~flag.running
  /\ flag' = [flag EXCEPT !.running = TRUE, !.die = FALSE, !.inEvent = FALSE]
  /\ KeepRest /\ UNCHANGED reply

KickAdd ==
  /\ Step("kickAdd", "none")
  /\ timer' = TRUE
  /\ hist' = [twice |-> hist.twice \/ timer, overtook |-> hist.overtook \/ cb.at # "idle"]
  /\ UNCHANGED <<flag, cb, module, reply>>

Disarm ==
  /\ Begin("disarm") /\ flag' = [flag EXCEPT !.dma = FALSE]
  /\ KeepRest /\ UNCHANGED reply

DisarmFlags ==
  /\ Step("disarm", "none") /\ flag' = [flag EXCEPT !.acq = FALSE]
  /\ KeepRest /\ UNCHANGED reply

Stop ==
  /\ Begin("none") /\ flag' = [flag EXCEPT !.die = TRUE]
  /\ KeepRest /\ UNCHANGED reply

(* The file: db2k_flush is adcDisarm and adcStop, and only after it does   *)
(* db2k_close let go of the module.  db2k_cleanup frees the DEVICE_        *)
(* EXTENSION with adc_timer in it; it deletes the timer only under a flag  *)
(* that nothing sets.                                                      *)
Open ==
  /\ Step("none", "none") /\ module = "closed" /\ module' = "open"
  /\ UNCHANGED <<flag, timer, cb, reply, hist>>

Flush ==
  /\ Begin("flush") /\ flag' = [flag EXCEPT !.dma = FALSE]
  /\ KeepRest /\ UNCHANGED reply

FlushFlags ==
  /\ Step("flush", "flushStop") /\ flag' = [flag EXCEPT !.acq = FALSE]
  /\ KeepRest /\ UNCHANGED reply

FlushStop ==
  /\ Step("flushStop", "close") /\ flag' = [flag EXCEPT !.die = TRUE]
  /\ KeepRest /\ UNCHANGED reply

Close ==
  /\ Step("close", "none") /\ module' = "closed"
  /\ UNCHANGED <<flag, timer, cb, reply, hist>>

Cleanup ==
  /\ Step("none", "none") /\ module = "closed" /\ module' = "gone"
  /\ UNCHANGED <<flag, timer, cb, reply, hist>>

Arm == ArmBegin \/ ArmDisarm \/ ArmFlags \/ ArmLooks \/ ArmWaitEnds \/ ArmTimeout
       \/ ArmStart \/ ArmInitFailure \/ ArmActive \/ Kick \/ KickAdd

File == Open \/ Flush \/ FlushFlags \/ FlushStop \/ Close \/ Cleanup

Unloaded == module = "gone" /\ UNCHANGED vars

Next == Callback \/ Arm \/ Disarm \/ DisarmFlags \/ Stop \/ File \/ Unloaded

Spec == Init /\ [][Next]_vars

(* The kernel calls a pending timer and an ioctl in progress goes on.      *)
FairSpec ==
  /\ Spec /\ WF_vars(Callback)
  /\ WF_vars(Arm /\ call # "none")
-----------------------------------------------------------------------------
(* The type of every variable.                                             *)
TypeOK ==
  /\ flag \in [acq: BOOLEAN, dma: BOOLEAN, running: BOOLEAN, die: BOOLEAN, inEvent: BOOLEAN]
  /\ timer \in BOOLEAN
  /\ cb \in [at: {"idle", "enter", "die?", "dma?", "work", "disarmed", "stops", "result",
                  "end", "leave", "timer"}, again: BOOLEAN]
  /\ call \in {"none", "armDisarm", "armFlags", "armRunning", "armWait", "armStart",
               "armPipe", "kick", "kickAdd", "disarm", "flush", "flushStop", "close"}
  /\ module \in {"closed", "open", "gone"}
  /\ reply \in {"none", "AcqArmed", "InitFailure"}
  /\ hist \in [twice: BOOLEAN, overtook: BOOLEAN]

(* add_timer is never called on a timer that is pending already, which the *)
(* kernel answers with a panic.                                            *)
AddedOnce == ~hist.twice

(* kickstartAdcEvent never finds the callback of an earlier acquisition    *)
(* still running: adcArm has waited for it.                                *)
KickFindsNoCallback == call = "kick" => ~flag.running

(* A callback never leaves at once because of inAdcEvent, which would end  *)
(* the chain of timers without a trace.                                    *)
CallbackEnters == cb.at = "enter" => ~flag.inEvent

(* A timer left behind by rmmod is the last one: its callback would find   *)
(* adcThreadDie set.                                                       *)
LeftoverIsLast == module = "gone" /\ timer => flag.die /\ ~flag.dma

(* However ioctls, close and callback meet, there is one timer at most, it *)
(* is served, and none is left behind that would start another.            *)
OneTimer == AddedOnce /\ KickFindsNoCallback /\ CallbackEnters /\ LeftoverIsLast

(* An arm that waits for the old callback gets past it, or fails at once.  *)
ArmEnds == call = "armWait" ~> call = "armStart" \/ hist.overtook

(* DerrAcqArmed, "Operation not available while an acquisition is armed":  *)
(* adcArm returns it only while an acquisition is armed (daqx.h); unless   *)
(* the timer was lost as above, when every later adcArm times out with it. *)
ArmedMeansArmed ==
  [][reply' = "AcqArmed" /\ reply # "AcqArmed" => flag.acq \/ hist.overtook]_vars

(* db2k_cleanup takes down what was set up, in the inverse order: nothing  *)
(* uses a DEVICE_EXTENSION that has been freed.                            *)
NothingAfterCleanup == module = "gone" => ~timer /\ cb.at = "idle"
=============================================================================
