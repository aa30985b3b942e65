----------------------------- MODULE LevelEvent -----------------------------
(***************************************************************************)
(* Trigger and stop events looked for in the data (db2kdriver/adc.c        *)
(* checkForLevelEvent and, of adcTestConfiguration, what it says about     *)
(* such an event): which request is accepted, and what the samples of the  *)
(* chosen channel, one after the other, then do.                           *)
(* AdcAcquisition takes the scans that satisfy the comparison for given.   *)
(***************************************************************************)
EXTENDS Integers, Sequences, Bitwise

CONSTANTS
  Word,       \* 2^16: values of a sample
  Levels,     \* the levels and variances requested, DWORDs
  ScanLength, \* adcScanLength
  MaxSamples  \* bound: samples looked at in one acquisition

VARIABLES
  trig,  \* trig[eventExpected].event, and whether the configuration was accepted
  hyst,  \* hystSatisfied
  seen,  \* the samples looked at since the event was set up
  hit    \* how many were looked at when the event occurred; 0 if it has not

vars == <<trig, hyst, seen, hit>>

Sources == {"DigPattern", "SoftwareAnalog"}
Senses  == {"AboveLevel", "BelowLevel", "EQLevel", "NELevel", "RisingEdge", "FallingEdge"}

Requests == [source: Sources, sens: Senses, signed: BOOLEAN, level: Levels,
             variance: Levels, location: 0..ScanLength]

(* The casts to SHORT and WORD.                                            *)
Short(x) == LET w == x % Word IN IF 2 * w >= Word THEN w - Word ELSE w
Cast(t, x) == IF t.signed THEN Short(x) ELSE x % Word
-----------------------------------------------------------------------------
(* adcTestConfiguration: an unsigned edge compares whole DWORDs.           *)
Whole(r, x) == IF r.signed THEN Short(x) ELSE x

Accepted(r) ==
  /\ r.location <= ScanLength
  /\ r.source = "DigPattern" => r.sens \notin {"RisingEdge", "FallingEdge"}
  /\ r.sens = "RisingEdge"  => Whole(r, r.level) >= Whole(r, r.variance)
  /\ r.sens = "FallingEdge" => Whole(r, r.level) <= Whole(r, r.variance)

Compare(sens, x, level, margin) ==
  CASE sens = "AboveLevel" -> x > level
    [] sens = "BelowLevel" -> x < level
    [] sens = "EQLevel"    -> x >= level - margin /\ x <= level + margin
    [] sens = "NELevel"    -> x < level - margin \/ x > level + margin
    [] OTHER               -> FALSE

(* An edge: past the level, once a sample was beyond the variance.         *)
Past(t, x) == IF t.sens = "RisingEdge" THEN Cast(t, x) > Cast(t, t.level)
                                       ELSE Cast(t, x) < Cast(t, t.level)
Beyond(t, x) == IF t.sens = "RisingEdge" THEN Cast(t, x) < Cast(t, t.variance)
                                         ELSE Cast(t, x) > Cast(t, t.variance)
IsEdge(t) == t.sens \in {"RisingEdge", "FallingEdge"}

CheckForLevelEvent(t, h, x) ==
  CASE t.source = "DigPattern" ->
         Compare(t.sens, x & t.variance, t.level & t.variance, 0)
    [] t.source = "SoftwareAnalog" /\ IsEdge(t) -> h /\ Past(t, x)
    [] OTHER -> Compare(t.sens, Cast(t, x), Cast(t, t.level), Cast(t, t.variance))

HystAfter(t, h, x) == h \/ (t.source = "SoftwareAnalog" /\ IsEdge(t) /\ Beyond(t, x))
-----------------------------------------------------------------------------
Idle == [source |-> "none"]

Init == trig = Idle /\ hyst = FALSE /\ seen = <<>> /\ hit = 0

(* adcConfigure clears scanConfiguredOK, then tests the request.           *)
Unconfigure ==
  /\ trig # Idle /\ trig' = Idle
  /\ hyst' = FALSE /\ seen' = <<>> /\ hit' = 0

(* adcConfigure and adcArm: setupStartEvent clears hystSatisfied.          *)
Configure ==
  /\ trig = Idle
  /\ \E r \in Requests : trig' = IF Accepted(r) THEN r ELSE Idle
  /\ hyst' = FALSE /\ seen' = <<>> /\ hit' = 0

RearmKeepsHyst ==  \* mutant: hystSatisfied is not cleared
  trig # Idle /\ seen' = <<>> /\ hit' = 0 /\ UNCHANGED <<trig, hyst>>

Rearm ==
  /\ trig # Idle
  /\ hyst' = FALSE /\ seen' = <<>> /\ hit' = 0
  /\ UNCHANGED trig

Sample ==
  /\ trig # Idle /\ hit = 0 /\ Len(seen) < MaxSamples
  /\ \E x \in 0..(Word - 1) :
       /\ seen' = Append(seen, x)
       /\ IF CheckForLevelEvent(trig, hyst, x)
          THEN hit' = Len(seen) + 1 /\ UNCHANGED hyst
          ELSE hyst' = HystAfter(trig, hyst, x) /\ UNCHANGED hit
  /\ UNCHANGED trig

Next == Unconfigure \/ Configure \/ Rearm \/ Sample

Spec == Init /\ [][Next]_vars
-----------------------------------------------------------------------------
(* The type of every variable.                                             *)
TypeOK ==
  /\ trig \in Requests \cup {Idle}
  /\ hyst \in BOOLEAN
  /\ seen \in Seq(0..(Word - 1)) /\ Len(seen) <= MaxSamples
  /\ hit \in 0..Len(seen)

(* The event of the k-th sample as the sensitivities define it over the    *)
(* whole signal: a level by the sample's value, an edge by a sample past   *)
(* the level after one beyond the variance.                                *)
V(k) == Cast(trig, seen[k])
L    == Cast(trig, trig.level)
M    == Cast(trig, trig.variance)
Masked(x) == x & trig.variance

Occurs(k) ==
  CASE trig.source = "DigPattern" ->
         \/ trig.sens = "AboveLevel" /\ Masked(seen[k]) > Masked(trig.level)
         \/ trig.sens = "BelowLevel" /\ Masked(seen[k]) < Masked(trig.level)
         \/ trig.sens = "EQLevel" /\ Masked(seen[k]) = Masked(trig.level)
         \/ trig.sens = "NELevel" /\ Masked(seen[k]) # Masked(trig.level)
    [] trig.source = "SoftwareAnalog" ->
         \/ trig.sens = "AboveLevel" /\ V(k) > L
         \/ trig.sens = "BelowLevel" /\ V(k) < L
         \/ trig.sens = "EQLevel" /\ V(k) \in (L - M)..(L + M)
         \/ trig.sens = "NELevel" /\ V(k) \notin (L - M)..(L + M)
         \/ trig.sens = "RisingEdge" /\ V(k) > L /\ \E j \in 1..(k - 1) : V(j) < M
         \/ trig.sens = "FallingEdge" /\ V(k) < L /\ \E j \in 1..(k - 1) : V(j) > M

(* The event that checkForLevelEvent finds sample by sample is the first   *)
(* of the signal, and it finds every one.                                  *)
HitIsFirst ==
  trig # Idle =>
    /\ hit # 0 => hit = Len(seen) /\ Occurs(hit)
    /\ \A k \in 1..Len(seen) : k # hit => ~Occurs(k)

(* A signal that only falls has no rising edge, and the other way round:   *)
(* the two levels that adcTestConfiguration accepts are a band, as long as *)
(* they are of the samples' width.                                         *)
EdgeIsReal ==
  hit # 0 /\ IsEdge(trig) /\ trig.level < Word /\ trig.variance < Word =>
    \E j \in 1..(hit - 1) :
      IF trig.sens = "RisingEdge" THEN V(j) < V(hit) ELSE V(j) > V(hit)

(* What checkForLevelEvent makes of a signal is what the request says.     *)
EventExact == HitIsFirst /\ EdgeIsReal
=============================================================================
