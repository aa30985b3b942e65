--------------------------- MODULE AdcTimerProofs ---------------------------
(***************************************************************************)
(* Theorems about AdcTimer, on a uniprocessor and on a multiprocessor.     *)
(***************************************************************************)
EXTENDS AdcTimer, TLAPS

Entered == {"enter", "die?", "dma?", "work", "disarmed", "stops", "result", "end"}
Leaving == {"leave", "timer"}

(* adcXferThreadRunning is set from Kick until the callback that ends the  *)
(* chain of timers has decided so, and it is that callback's last word.    *)
Chain ==
  /\ timer => flag.running
  /\ cb.at \in Entered => flag.running
  /\ cb.at \in Leaving /\ cb.again => flag.running
  /\ timer /\ cb.at # "idle" => cb.at \in Leaving /\ ~cb.again /\ hist.overtook

(* inAdcEvent belongs to the callback under way.                           *)
Guarded == flag.inEvent => cb.at \in (Entered \ {"enter"}) \cup {"leave"}

(* adcArm is past its wait only when the old chain has ended.              *)
Waited ==
  /\ call \in {"armStart", "armPipe", "kick"} => ~flag.running
  /\ call = "kickAdd" => /\ flag.running /\ ~timer /\ cb.at \notin Entered
                         /\ cb.at \in Leaving => ~cb.again

(* A chain that is said to run and has neither timer nor callback was lost *)
(* to a callback that adcArm has overtaken.                                *)
Lost ==
  flag.running =>
    \/ timer \/ cb.at \in Entered \/ call = "kickAdd" \/ hist.overtook
    \/ cb.at \in Leaving /\ cb.again

(* db2k_flush leaves DMA off and adcThreadDie set, and nothing but adcArm  *)
(* changes that.                                                           *)
Flushed ==
  /\ call # "none" => module = "open"
  /\ call \in {"flush", "flushStop", "close"} => ~flag.dma
  /\ call = "close" => flag.die
  /\ module # "open" => flag.die /\ ~flag.dma

IInv == TypeOK /\ AddedOnce /\ Chain /\ Guarded /\ Waited /\ Lost /\ Flushed

LEMMA InitIInv == Init => IInv
<1> SUFFICES ASSUME Init PROVE IInv
  OBVIOUS
<1>1. /\ flag.running = FALSE /\ flag.inEvent = FALSE /\ flag.die = TRUE /\ flag.dma = FALSE
      /\ timer = FALSE /\ cb.at = "idle" /\ call = "none" /\ module = "closed"
      /\ hist.twice = FALSE
  BY DEF Init
<1>2. TypeOK
  <2>1. flag \in [acq: BOOLEAN, dma: BOOLEAN, running: BOOLEAN, die: BOOLEAN, inEvent: BOOLEAN]
    BY DEF Init
  <2>2. cb \in [at: {"idle", "enter", "die?", "dma?", "work", "disarmed", "stops", "result",
                     "end", "leave", "timer"}, again: BOOLEAN]
    BY DEF Init
  <2>3. hist \in [twice: BOOLEAN, overtook: BOOLEAN]
    BY DEF Init
  <2> QED BY <2>1, <2>2, <2>3 DEF Init, TypeOK
<1>3. AddedOnce /\ Chain /\ Guarded /\ Waited /\ Lost /\ Flushed
  BY <1>1 DEF AddedOnce, Chain, Guarded, Waited, Lost, Flushed, Entered, Leaving
<1> QED BY <1>2, <1>3 DEF IInv

(* Every step of the callback keeps the invariant.                         *)
LEMMA CallbackIInv == IInv /\ Callback => IInv'
<1> SUFFICES ASSUME IInv, Callback PROVE IInv'
  OBVIOUS
<1> USE DEF IInv, TypeOK, AddedOnce, Chain, Guarded, Waited, Lost, Flushed, Entered, Leaving,
            CbStep, KeepCall
<1>1. CASE CbFire
  BY <1>1 DEF CbFire
<1>2. CASE CbEnter
  BY <1>2 DEF CbEnter
<1>3. CASE CbLooksAtDie
  BY <1>3 DEF CbLooksAtDie
<1>4. CASE CbLooksAtDma
  BY <1>4 DEF CbLooksAtDma
<1>5. CASE CbGoesOn
  BY <1>5 DEF CbGoesOn
<1>6. CASE CbStopsTransfer
  BY <1>6 DEF CbStopsTransfer
<1>7. CASE CbDisarms
  BY <1>7 DEF CbDisarms
<1>8. CASE CbClearsActive
  BY <1>8 DEF CbClearsActive
<1>9. CASE CbStops
  BY <1>9 DEF CbStops
<1>10. CASE CbReturns
  BY <1>10 DEF CbReturns
<1>11. CASE CbSetsRunning
  BY <1>11 DEF CbSetsRunning
<1>12. CASE CbLeaves
  <2>1. TypeOK' /\ AddedOnce' /\ Chain' /\ Guarded'
    BY <1>12 DEF CbLeaves
  <2>2. Waited' /\ Lost' /\ Flushed'
    BY <1>12 DEF CbLeaves
  <2> QED BY <2>1, <2>2
<1>13. CASE CbTimer
  <2>1. CASE cb.again
    <3>1. /\ timer = FALSE /\ timer' = TRUE /\ cb'.at = "idle" /\ cb'.again = cb.again
          /\ flag' = flag /\ hist' = [hist EXCEPT !.twice = FALSE]
      BY <1>13, <2>1 DEF CbTimer, AddTimer
    <3>2. TypeOK'
      BY <1>13, <2>1 DEF CbTimer, AddTimer
    <3>3. AddedOnce' /\ Chain' /\ Guarded' /\ Flushed'
      BY <1>13, <2>1, <3>1 DEF CbTimer
    <3>5. Lost'
      BY <3>1
    <3>4. Waited'
      BY <1>13, <2>1, <3>1 DEF CbTimer
    <3> QED BY <3>2, <3>3, <3>4, <3>5
  <2>2. CASE ~cb.again
    BY <1>13, <2>2 DEF CbTimer, DelTimer
  <2> QED BY <2>1, <2>2
<1> QED BY <1>1, <1>2, <1>3, <1>4, <1>5, <1>6, <1>7, <1>8, <1>9, <1>10, <1>11, <1>12, <1>13
        DEF Callback

(* Every step of adcArm does.                                              *)
LEMMA ArmIInv == IInv /\ Arm => IInv'
<1> SUFFICES ASSUME IInv, Arm PROVE IInv'
  OBVIOUS
<1> USE DEF IInv, TypeOK, AddedOnce, Chain, Guarded, Waited, Lost, Flushed, Entered, Leaving,
            Step, Begin, Runs, KeepRest
<1>1. CASE ArmBegin
  BY <1>1 DEF ArmBegin
<1>2. CASE ArmDisarm
  BY <1>2 DEF ArmDisarm
<1>3. CASE ArmFlags
  BY <1>3 DEF ArmFlags
<1>4. CASE ArmLooks
  BY <1>4 DEF ArmLooks
<1>5. CASE ArmWaitEnds
  BY <1>5 DEF ArmWaitEnds
<1>6. CASE ArmTimeout
  BY <1>6 DEF ArmTimeout
<1>7. CASE ArmStart
  BY <1>7 DEF ArmStart
<1>8. CASE ArmInitFailure
  BY <1>8 DEF ArmInitFailure
<1>9. CASE ArmActive
  BY <1>9 DEF ArmActive
<1>10. CASE Kick
  BY <1>10 DEF Kick
<1>11. CASE KickAdd
  BY <1>11 DEF KickAdd
<1> QED BY <1>1, <1>2, <1>3, <1>4, <1>5, <1>6, <1>7, <1>8, <1>9, <1>10, <1>11 DEF Arm

(* And so does every other step, the module's end included.                *)
LEMMA OtherIInv ==
  ASSUME IInv, Disarm \/ DisarmFlags \/ Stop \/ File \/ UNCHANGED vars
  PROVE  IInv'
<1> USE DEF IInv, TypeOK, AddedOnce, Chain, Guarded, Waited, Lost, Flushed, Entered, Leaving,
            Step, Begin, Runs, KeepRest
<1>1. CASE Disarm
  BY <1>1 DEF Disarm
<1>2. CASE DisarmFlags
  BY <1>2 DEF DisarmFlags
<1>3. CASE Stop
  BY <1>3 DEF Stop
<1>4. CASE Open
  BY <1>4 DEF Open
<1>5. CASE Flush
  BY <1>5 DEF Flush
<1>6. CASE FlushFlags
  BY <1>6 DEF FlushFlags
<1>7. CASE FlushStop
  BY <1>7 DEF FlushStop
<1>8. CASE Close
  BY <1>8 DEF Close
<1>9. CASE Cleanup
  BY <1>9 DEF Cleanup
<1>10. CASE UNCHANGED vars
  BY <1>10 DEF vars
<1> QED BY <1>1, <1>2, <1>3, <1>4, <1>5, <1>6, <1>7, <1>8, <1>9, <1>10 DEF File

LEMMA NextIInv == IInv /\ [Next]_vars => IInv'
BY CallbackIInv, ArmIInv, OtherIInv DEF Next, Unloaded

LEMMA Invariance == Spec => []IInv
<1>1. Init => IInv
  BY InitIInv
<1>2. IInv /\ [Next]_vars => IInv'
  BY NextIInv
<1> QED BY <1>1, <1>2, PTL DEF Spec

(* However ioctls, close, rmmod and callback interleave, add_timer is      *)
(* never called on a pending timer, kickstartAdcEvent finds no callback of *)
(* an earlier acquisition, no callback leaves because of inAdcEvent, and a *)
(* timer that rmmod leaves behind is the last one.                         *)
THEOREM TimerIsOne == Spec => [](TypeOK /\ OneTimer)
<1>1. IInv => TypeOK /\ OneTimer
  BY DEF IInv, TypeOK, OneTimer, AddedOnce, Chain, Guarded, Waited, Flushed, Entered, Leaving,
         KickFindsNoCallback, CallbackEnters, LeftoverIsLast
<1> QED BY <1>1, Invariance, PTL

(* adcArm returns DerrAcqArmed only while an acquisition is armed, or      *)
(* after it has overtaken a callback once.                                 *)
THEOREM ArmedIsArmed == Spec => ArmedMeansArmed
<1>1. IInv /\ [Next]_vars
        => [reply' = "AcqArmed" /\ reply # "AcqArmed" => flag.acq \/ hist.overtook]_vars
  <2> SUFFICES ASSUME IInv, Next, reply' = "AcqArmed", reply # "AcqArmed"
               PROVE  flag.acq \/ hist.overtook
    BY DEF vars
  <2>1. CASE ArmBegin
    BY <2>1 DEF ArmBegin, IInv, TypeOK
  <2>2. CASE ArmTimeout
    BY <2>2 DEF ArmTimeout, IInv, TypeOK, Lost, Waited, Entered, Leaving, Step
  <2>3. ArmBegin \/ ArmTimeout
    BY DEF Next, Callback, Arm, File, Unloaded, vars, KeepCall, KeepRest,
           CbFire, CbEnter, CbLooksAtDie, CbLooksAtDma, CbGoesOn, CbStopsTransfer, CbDisarms,
           CbClearsActive, CbStops, CbReturns, CbSetsRunning, CbLeaves, CbTimer,
           ArmDisarm, ArmFlags, ArmLooks, ArmWaitEnds, ArmStart, ArmInitFailure, ArmActive,
           Kick, KickAdd, Disarm, DisarmFlags, Stop, Open, Flush, FlushFlags, FlushStop,
           Close, Cleanup
  <2> QED BY <2>1, <2>2, <2>3
<1> QED BY <1>1, Invariance, PTL DEF Spec, ArmedMeansArmed
=============================================================================
