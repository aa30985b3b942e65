------------------------------ MODULE AdcConfig ------------------------------
(***************************************************************************)
(* adcConfigure (db2kdriver/adc.c): what a request to configure an         *)
(* acquisition is tested for, and what it becomes: the scan list of the    *)
(* board, the counters and the port that it samples, the divisor of the    *)
(* pacer clock, the trigger.  Functions of the request                     *)
(*   [scan, pre, post, mode, clock, period, list]                          *)
(* in which an entry of the scan is [kind, chan, gain, flags], the period  *)
(* [ms, half] counts halves of a us, and list is the triggerEventList.     *)
(***************************************************************************)
EXTENDS Integers, Sequences, FiniteSets, FiniteSetsExt, TLC

CONSTANTS MaxScan,        \* 512 entries
          MaxPre,         \* 100000 samples before the trigger
          Milli,          \* 1000 us
          Longest,        \* 68719476 ms, 740 us: the longest period
          Limb,           \* 2^16
          Sample, Code    \* 2^16 levels of a sample, 2^12 codes of the trigger DACs

\* The error of the first test that fails.
FirstOf(tests) ==
    LET bad == {i \in DOMAIN tests : tests[i][1]}
    IN  IF bad = {} THEN "none" ELSE tests[Min(bad)][2]

---------------------------------------------------------------------------
\* Entries of the scan list, each with those before it: the counters of a pair
\* are used alone or cascaded, and port 2 as the local chip or as the expansion.
Cascaded == {"ctr32lo", "ctr32hi"}
Pair(e) == e.chan % 2

Meets(e, f) == Pair(e) = Pair(f)

AnalogFault(e) ==
    LET gain == IF e.chan > 15 THEN e.gain \div 4 ELSE e.gain
    IN  FirstOf(<< <<e.chan > 271, "InvChan">>,
                   <<gain > 6, "InvGain">>,
                   <<gain = 0 /\ "bipolar" \notin e.flags, "InvGain">>,
                   <<e.chan > 7 /\ "diff" \in e.flags, "InvAdcRange">> >>)

EntryFault(scan, i) ==
    LET e == scan[i]
        Before(kinds) == \E j \in 1 .. i - 1 : scan[j].kind \in kinds
        PairIn(kinds) == \E j \in 1 .. i - 1 : scan[j].kind \in kinds /\ Meets(scan[j], e)
    IN  CASE e.kind = "analog"    -> AnalogFault(e)
          [] e.kind = "p3"        -> "none"
          [] e.kind = "ctr16"     -> FirstOf(<< <<e.chan > 3, "InvChan">>,
                                                <<PairIn(Cascaded), "ParamConflict">> >>)
          [] e.kind \in Cascaded  -> FirstOf(<< <<e.chan > 3, "InvChan">>,
                                                <<PairIn({"ctr16"}), "ParamConflict">> >>)
          [] e.kind = "p2local"   -> FirstOf(<< <<Before({"p2exp"}), "ParamConflict">>,
                                                <<e.chan > 3, "InvChan">> >>)
          [] e.kind = "p2exp"     -> FirstOf(<< <<Before({"p2local"}), "ParamConflict">>,
                                                <<e.chan > 31, "InvChan">> >>)
          [] OTHER                -> "InvDioDeviceType"

ListFault(scan) ==
    FirstOf(<< <<Len(scan) = 0 \/ Len(scan) > MaxScan, "InvCount">> >>
            \o [i \in DOMAIN scan |-> LET f == EntryFault(scan, i) IN <<f # "none", f>>])

CountFault(r) ==
    FirstOf(<< <<r.pre > MaxPre, "InvCount">>,
               <<r.mode # "InfinitePost" /\ r.post < Len(r.scan), "InvCount">> >>)

---------------------------------------------------------------------------
\* The events that the list chooses.
Start(r) == IF r.list[0].count = 0 THEN r.list[0] ELSE r.list[1]
StopOf(r, stop) == IF r.list[0].count = 2 THEN r.list[2] ELSE [stop EXCEPT !.source = "ScanCount"]

Edges == {"Rising", "Falling"}
Levels == {"Above", "Below"}
Short(x) == ((x + (Sample \div 2)) % Sample) - (Sample \div 2)
EdgeCrossed(t) ==
    LET v(x) == IF t.source = "SoftwareAnalog" /\ "signed" \in t.of.flags THEN Short(x) ELSE x
    IN  \/ t.sens = "Rising" /\ v(t.level) < v(t.variance)
        \/ t.sens = "Falling" /\ v(t.level) > v(t.variance)

\* An event that is looked for in the data.
DataFault(r, t) ==
    FirstOf(<< <<t.location > Len(r.scan), "InvTrigChannel">>,
               <<t.sens \notin Levels \cup {"EQ", "NE"}
                   \cup (IF t.source = "SoftwareAnalog" THEN Edges ELSE {}), "InvTrigSense">>,
               <<EdgeCrossed(t), "InvLevel">> >>)

StartFault(r, t) ==
    CASE t.source = "Immediate"   -> FirstOf(<< <<r.pre # 0, "InvCount">> >>)
      [] t.source = "Software"    -> "none"
      [] t.source = "ExternalTTL" ->
           FirstOf(<< <<r.pre # 0, "InvCount">>,
                      <<t.sens \notin Levels \cup Edges, "InvTrigSense">> >>)
      [] t.source = "HardwareAnalog" ->
           FirstOf(<< <<r.pre # 0, "InvCount">>,
                      <<t.sens \notin Levels \cup Edges, "InvTrigSense">>,
                      <<EdgeCrossed(t), "InvLevel">> >>)
      [] t.source \in {"DigPattern", "SoftwareAnalog"} -> DataFault(r, t)
      [] OTHER -> "InvTrigSource"

StopFault(r, t) ==
    CASE t.source \in {"Software", "ScanCount"} -> "none"
      [] t.source \in {"DigPattern", "SoftwareAnalog"} -> DataFault(r, t)
      [] OTHER -> "InvTrigSource"

---------------------------------------------------------------------------
\* The period: in us, not shorter than the scan needs to settle.
Slow(scan) == Cardinality({i \in DOMAIN scan : "settle" \in scan[i].flags})
Settling(r) == CASE r.clock.source = "External" -> Len(r.scan) + Slow(r.scan)
                 [] r.clock.source = "AdcClock" -> 5 * (Len(r.scan) + Slow(r.scan))
                 [] OTHER                       -> 10 * Len(r.scan)

Longer(p, q) == p.ms > q.ms \/ (p.ms = q.ms /\ p.us > q.us)
ClockFault(r) ==
    FirstOf(<< <<r.clock.source \notin {"External", "AdcClock", "Div2"}, "InvClockSource">>,
               <<\/ r.period.ms > Longest.ms
                 \/ r.period.ms = Longest.ms /\ r.period.half > 2 * Longest.us, "InvFreq">>,
               <<r.period.ms = 0 /\ r.period.half < 10, "InvFreq">> >>)

Shortest(r) == [ms |-> Settling(r) \div Milli, us |-> Settling(r) % Milli]

Floor(p) == [ms |-> p.ms, us |-> p.half \div 2]

Raised(p, q) == IF Longer(q, p) THEN q ELSE p
Period(r) == Raised(Floor(r.period), Shortest(r))

\* computePacerClockDivisor: us - 1 as a high word and a low double word, from
\* products that each fit a double word.
Borrow(word) == IF word = 0 THEN 1 ELSE 0

Divisor(p) ==
    LET low  == (p.ms % Limb) * Milli + p.us
        high == (p.ms \div Limb) * Milli + (low \div Limb)
        word == (high % Limb) * Limb + (low % Limb)
    IN  [high |-> (high \div Limb) - Borrow(word), low |-> (word - 1) % (Limb * Limb)]

---------------------------------------------------------------------------
\* The four words of an entry of the list.  A digital entry repeats the words
\* of the last analog one before it; a channel above 15 is the expansion
\* channel `exp` of the input `in`.
Analog(e) ==
    [in |-> IF e.chan > 15 THEN (e.chan \div 16) - 1 ELSE e.chan,
     exp |-> IF e.chan > 15 THEN e.chan % 16 ELSE 0,
     gain |-> IF e.chan > 15 THEN (e.gain % 32) \div 4 ELSE e.gain % 8,
     expGain |-> IF e.chan > 15 THEN e.gain % 4 ELSE 0,
     range |-> e.flags \cap {"diff", "bipolar"}]
NoAnalog == [in |-> 0, exp |-> 0, gain |-> 0, expGain |-> 0, range |-> {}]

LastAnalog(scan, i) ==
    LET before == {j \in 1 .. i : scan[j].kind = "analog"}
    IN  IF before = {} THEN NoAnalog ELSE Analog(scan[Max(before)])

Register(e) ==
    CASE e.kind = "ctr16"   -> <<"ctr", e.chan>>
      [] e.kind = "ctr32lo" -> <<"ctr", Pair(e)>>
      [] e.kind = "ctr32hi" -> <<"ctr", Pair(e) + 2>>
      [] e.kind \in {"p2local", "p2exp"} -> <<"p2", e.chan>>
      [] OTHER              -> <<e.kind, 0>>

Words(scan) ==
    [i \in DOMAIN scan |->
       [analog |-> LastAnalog(scan, i), register |-> Register(scan[i]), last |-> i = Len(scan),
        flags |-> scan[i].flags \cap {"hold", "signed", "settle", "ignoreType"}]]

\* counterControlImage: what each counter will be told when the board is armed.
Counts(e) == [clear |-> "totalize" \notin e.flags, rising |-> "falling" \notin e.flags]
LastOf(scan, S) == scan[Max(S)]
Images(scan) ==
    [k \in 0 .. 3 |->
       LET users == {i \in DOMAIN scan : \/ scan[i].kind = "ctr16" /\ scan[i].chan = k
                                         \/ scan[i].kind \in Cascaded /\ Pair(scan[i]) = k}
       IN  IF users = {} THEN [clear |-> FALSE, rising |-> FALSE, off |-> TRUE]
           ELSE Counts(LastOf(scan, users)) @@ [off |-> FALSE]]

\* What adcSetScanSeq tells the board at once: the pairs and port 2.
Pairs(scan, cascade) ==
    [k \in {0, 1} |->
       LET users == {i \in DOMAIN scan : /\ scan[i].kind \in {"ctr16"} \cup Cascaded
                                         /\ Pair(scan[i]) = k}
       IN  IF users = {} THEN cascade[k] ELSE LastOf(scan, users).kind \in Cascaded]
Port2(scan, port) ==
    LET users == {i \in DOMAIN scan : scan[i].kind \in {"p2local", "p2exp"}}
    IN  IF users = {} THEN port ELSE LastOf(scan, users).kind

---------------------------------------------------------------------------
\* adcSetTrig: the levels of an analog trigger of the board as codes of its
\* DACs, rounded, over the whole range that the EEPROM has by default; what is
\* written of them is 12 bits.
DacCode(level) == (level * Code + (Sample \div 2)) \div Sample
Written(level) == DacCode(level) % Code
=============================================================================
