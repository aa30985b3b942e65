------------------------------ MODULE AcqSetup ------------------------------
(***************************************************************************)
(* Setting up an acquisition: what the calls of the library (src/apiadc.c) *)
(* remember of it, the requests that they send (ADC_CONFIG: one by each    *)
(* call that sets the rate, one when the acquisition is armed after a      *)
(* change), and what the driver and the board hold of it at the end.       *)
(* Refused calls that change nothing are steps that are not taken.  Files  *)
(* are AdcSession's, what runs once armed AdcAcquisition's, the counter    *)
(* and digital calls in between CtrTmr's and DioPorts'.                    *)
(***************************************************************************)
EXTENDS AdcConfig

CONSTANTS Scans, Muxes,    \* arguments of the calls: scan lists; ranges of channels
          Acqs, Clocks,    \* modes with their counts; clock sources
          Periods,         \* of rates and frequencies
          Trigs, Events,   \* daqAdcSetTrig; daqSetTriggerEvent, of the start or the stop
          DWord,           \* 2^32
          MaxCalls         \* bound: calls that set something

VARIABLES lib,    \* session[handle]
          drv,    \* the device extension
          board,  \* what the board has been told
          asked,  \* the events and the period last asked for, the periods raised to since
          calls

vars == <<lib, drv, board, asked, calls>>

Modes == {"NShot", "NShotRearm", "InfinitePost", "PrePost"}
---------------------------------------------------------------------------
\* adcConfigure.  The test leaves the events that it chose in the driver,
\* refused or not; scanConfiguredOK says that the rest goes with them.
Fault(r) ==
    FirstOf(<< <<ListFault(r.scan) # "none", "list">>, <<CountFault(r) # "none", "count">>,
               <<StartFault(r, Start(r)) # "none", "start">>,
               <<StopFault(r, StopOf(r, drv.stop)) # "none", "stop">>,
               <<ClockFault(r) # "none", "clock">> >>)

DrvRefused(r) ==
    LET d == [drv EXCEPT !.ok = FALSE]
    IN  IF Fault(r) \in {"list", "count"} THEN d
        ELSE [d EXCEPT !.start = Start(r), !.stop = StopOf(r, drv.stop)]

DrvConfigured(r) ==
    [ok |-> TRUE, size |-> Len(r.scan), pre |-> r.pre \div Len(r.scan),
     post |-> r.post \div Len(r.scan), clock |-> r.clock, divisor |-> Divisor(Period(r)),
     start |-> Start(r),
     stop |-> IF r.mode = "InfinitePost" THEN [StopOf(r, drv.stop) EXCEPT !.source = "never"]
              ELSE StopOf(r, drv.stop),
     image |-> Images(r.scan)]

\* adcSetScanSeq.
BoardConfigured(r) ==
    [board EXCEPT !.list = Words(r.scan), !.cascade = Pairs(r.scan, @),
                  !.port2 = Port2(r.scan, @), !.touched = FALSE]

\* The request with l's settings; counts in samples wrap.
Request(l) ==
    [scan |-> l.scan, pre |-> (l.pre * Len(l.scan)) % DWord,
     post |-> (l.post * Len(l.scan)) % DWord,
     mode |-> l.mode, clock |-> l.clock, period |-> l.period, list |-> l.list]

\* What the driver makes of a request, and the library of the answer: the
\* period that it gets is its own from then on.
Send(l, r) ==
    IF Fault(r) = "none"
    THEN /\ drv' = DrvConfigured(r) /\ board' = BoardConfigured(r)
         /\ lib' = [l EXCEPT !.period = [ms |-> Period(r).ms, half |-> 2 * Period(r).us]]
    ELSE drv' = DrvRefused(r) /\ lib' = l /\ UNCHANGED board
Raises(r) == IF Fault(r) = "none" THEN {Shortest(r)} ELSE {}

---------------------------------------------------------------------------
\* The calls that set something are refused while an acquisition is active.
Setter == ~lib.active /\ calls < MaxCalls /\ calls' = calls + 1
Changed(l) == [l EXCEPT !.changed = TRUE]

Held(scan) ==   \* all but the first entry are sampled and held
    [i \in DOMAIN scan |->
       [scan[i] EXCEPT !.flags = IF i = 1 THEN @ \ {"hold"} ELSE @ \cup {"hold"}]]

SetScan(scan) ==
    /\ Setter /\ Len(scan) \in 1 .. MaxScan
    /\ lib' = Changed([lib EXCEPT !.scan = Held(scan)])
    /\ UNCHANGED <<drv, board, asked>>

\* daqAdcSetMux: one entry, for each channel of a range.
SetMux(m) ==
    /\ m.first <= m.last /\ m.last - m.first + 1 < MaxScan
    /\ SetScan([i \in 1 .. m.last - m.first + 1 |-> [m.entry EXCEPT !.chan = m.first + i - 1]])

SetAcq(a) ==
    /\ Setter /\ a.mode \in Modes /\ ~(a.mode = "NShotRearm" /\ a.post = 0)
    /\ lib' = Changed([lib EXCEPT !.mode = a.mode, !.post = a.post,
                                  !.pre = IF a.mode = "PrePost" THEN a.pre ELSE 0])
    /\ UNCHANGED <<drv, board, asked>>

SetClockSource(c) ==
    /\ Setter /\ c.source \notin {"GatedAdcClock", "TriggerSource"}
    /\ lib' = Changed([lib EXCEPT !.clock = c])
    /\ UNCHANGED <<drv, board, asked>>

---------------------------------------------------------------------------
\* daqAdcSetRate tries the rate on the driver with an acquisition of one scan,
\* whose configuration stays there: adcChanged is set for the next arm.
ProbeQuietly(l) == l   \* mutant: adcChanged is left as it was
Probe(l) == Changed(l)

Probing(l, p) ==
    [Request(l) EXCEPT !.pre = 0, !.post = Len(l.scan), !.mode = "NShot", !.period = p]

SetRate(p) ==
    /\ Setter /\ (p.ms > 0 \/ p.half >= 2)
    /\ LET r == Probing(lib, p)
       IN  /\ Send(Probe(lib), r)
           /\ asked' = IF Fault(r) # "none" THEN asked
                       ELSE [asked EXCEPT !.period = Floor(p), !.raised = Raises(r)]

\* daqAdcSetFreq keeps the period that was asked for and does not tell that
\* the driver, or daqAdcSetRate above 1 MHz, refused it.
SetFreq(p) ==
    /\ Setter
    /\ LET l == Changed([lib EXCEPT !.period = p])
           r == Probing(l, p)
       IN  IF p.ms > 0 \/ p.half >= 2
           THEN Send(l, r) /\ asked' = [asked EXCEPT !.period = Floor(p), !.raised = Raises(r)]
           ELSE /\ lib' = l /\ UNCHANGED <<drv, board>>
                /\ asked' = [asked EXCEPT !.period = Floor(p), !.raised = {}]

---------------------------------------------------------------------------
\* daqAdcSetTrig has element 0 of the list and no stop event.
SetTrig(t) ==
    /\ Setter
    /\ t.source \notin {"DigPattern", "ScanCount"}
    /\ lib' = Changed([lib EXCEPT !.source = t.source, !.list[0] = [t EXCEPT !.count = 0]])
    /\ asked' = [asked EXCEPT !.start = t, !.stop = "none", !.whole = TRUE]
    /\ UNCHANGED <<drv, board>>

\* daqCalcTriggerVals: the level and the variance of an analog event as counts
\* of its channel's range, in which an edge comes from beyond the variance; a
\* signed one is moved down by half the range, less one count, and wraps.
Abs(x) == IF x < 0 THEN -x ELSE x
Lowest(t) == IF "bipolar" \in t.of.flags THEN -(Sample \div 2) ELSE 0
InRange(t, x) == Lowest(t) <= x /\ x < Lowest(t) + Sample
Beyond(t) == CASE t.sens = "Rising"  -> t.level - Abs(t.variance)
               [] t.sens = "Falling" -> t.level + Abs(t.variance)
               [] OTHER              -> t.variance
Analogue == {"HardwareAnalog", "SoftwareAnalog"}

Calculable(t) ==
    t.source \in Analogue =>
        /\ InRange(t, t.level) /\ InRange(t, Beyond(t))
        /\ t.source = "SoftwareAnalog" /\ t.sens \in {"EQ", "NE"} =>
             InRange(t, t.level - Abs(t.variance)) /\ InRange(t, t.level + Abs(t.variance))

Counted(t, x) ==
    (x - Lowest(t) - (IF t.source = "SoftwareAnalog" /\ "signed" \in t.of.flags
                      THEN (Sample \div 2) - 1 ELSE 0)) % DWord
Calculated(t) ==
    IF t.source \notin Analogue THEN t
    ELSE [t EXCEPT !.level = Counted(t, @),
                   !.variance = CASE t.source = "HardwareAnalog" \/ t.sens \in Edges
                                  -> Counted(t, Beyond(t))
                                  [] t.sens \in {"EQ", "NE"} -> Abs(t.variance)
                                  [] OTHER -> Counted(t, t.level)]

\* daqSetTriggerEvent has element 1 for the start and 2 for the stop; the count
\* in element 0 only grows, so that a stop event alone makes element 1 the
\* start, whatever is in it (`whole`: the start asked for is the one in use).
Location(t) == [t EXCEPT !.location = 0]
SetTriggerEvent(n, t) ==
    /\ Setter
    /\ t.source # "GatedAdcClock" /\ Calculable(t)
    /\ lib' = Changed([lib EXCEPT !.list[0].count = Max({@, n}),
                                  !.list[n] = Location(Calculated(t)),
                                  !.source = IF n = 1 THEN t.source ELSE @])
    /\ asked' = IF n = 1 THEN [asked EXCEPT !.start = Location(Calculated(t)), !.whole = TRUE]
                ELSE [asked EXCEPT !.stop = t.source,
                                   !.whole = @ /\ lib.list[0].count > 0]
    /\ UNCHANGED <<drv, board>>

---------------------------------------------------------------------------
\* daqAdcArm finds the entry of the scan list that each event is about: the
\* first for an analog trigger of the board, any for one in the data.
Plain(e) == [e EXCEPT !.flags = @ \ {"hold"}]

InUse(l) == IF l.list[0].count = 0 THEN {} ELSE 1 .. l.list[0].count
EntriesOf(l, n) == {i \in DOMAIN l.scan : Plain(l.scan[i]) = l.list[n].of}
Found(l, n) ==
    CASE l.list[n].source = "HardwareAnalog" -> 1 \in EntriesOf(l, n)
      [] l.list[n].source \in {"SoftwareAnalog", "DigPattern"} -> EntriesOf(l, n) # {}
      [] OTHER -> TRUE

LocatedEvent(l, n) ==
    IF l.list[n].source \in {"SoftwareAnalog", "DigPattern"}
    THEN [l.list[n] EXCEPT !.location = Min(EntriesOf(l, n)) - 1]
    ELSE l.list[n]

\* The events before the first one without an entry are located all the same.
Located(l) ==
    LET lost == {n \in InUse(l) : ~Found(l, n)}
    IN  [l EXCEPT !.list = [n \in 0 .. 2 |->
           IF n \in InUse(l) /\ \A k \in lost : n < k THEN LocatedEvent(l, n) ELSE @[n]]]

\* What the driver tells the board when it is armed: the counters, the pacer
\* clock, whose divisor an external clock leaves alone, and the trigger.
InitializeOutputs(b, d) ==
    [b EXCEPT !.counter = [k \in 0 .. 3 |-> IF d.image[k].off THEN @[k] ELSE d.image[k]]]

SetupPacerClock(b, d) ==
    [b EXCEPT !.pacer = [source |-> d.clock.source, flags |-> d.clock.flags,
                         divisor |-> IF d.clock.source = "External" THEN @.divisor ELSE d.divisor]]

SetupStartEvent(b, d) ==
    IF d.start.source # "HardwareAnalog" THEN b
    ELSE [b EXCEPT !.dacs = [threshold |-> Written(d.start.level),
                             hysteresis |-> Written(d.start.variance)]]

TrigControl(b, d) ==
    [b EXCEPT !.trig = IF d.start.source \in {"ExternalTTL", "HardwareAnalog"}
                       THEN <<d.start.source, d.start.sens>> ELSE <<>>]

BoardArmed(b, d) == TrigControl(InitializeOutputs(SetupPacerClock(SetupStartEvent(b, d), d), d), d)

\* adcArm of the driver, after the configuration if there was one.
Runs(l, d, b) ==
    /\ lib' = [l EXCEPT !.active = TRUE] /\ drv' = d
    /\ board' = IF d.ok THEN [BoardArmed(b, d) EXCEPT !.armed = TRUE] ELSE b

ImmediateMode ==
    /\ lib.mode \in {"NShotRearm", "PrePost"}
    /\ lib.source \in {"Immediate", "AdcClock", "GatedAdcClock"}

ArmAgain ==
    /\ ~lib.active /\ ~lib.changed
    /\ Runs(lib, drv, board) /\ UNCHANGED <<asked, calls>>

ArmChanged ==
    /\ ~lib.active /\ lib.changed /\ ~ImmediateMode /\ calls' = calls
    /\ \A n \in InUse(lib) : Found(lib, n)
    /\ LET l == Located(lib)
           r == Request(l)
       IN  IF Fault(r) = "none"
           THEN /\ Runs([l EXCEPT !.changed = FALSE,
                                  !.period = [ms |-> Period(r).ms, half |-> 2 * Period(r).us]],
                        DrvConfigured(r), BoardConfigured(r))
                /\ asked' = [asked EXCEPT !.raised = @ \cup Raises(r)]
           ELSE Send(l, r) /\ UNCHANGED asked

\* One of the events has no entry.
ArmUnmatched ==
    /\ ~lib.active /\ lib.changed /\ ~ImmediateMode
    /\ \E n \in InUse(lib) : ~Found(lib, n)
    /\ lib' = Located(lib) /\ UNCHANGED <<drv, board, asked, calls>>

Disarm ==
    /\ lib.active
    /\ lib' = [lib EXCEPT !.active = FALSE] /\ board' = [board EXCEPT !.armed = FALSE]
    /\ UNCHANGED <<drv, asked, calls>>

\* A counter or digital call of someone else, for a pair or the port.
Elsewhere ==
    /\ Setter
    /\ \/ \E k \in {0, 1} : board' = [board EXCEPT !.cascade[k] = ~@, !.touched = TRUE]
       \/ \E p \in {"p2local", "p2exp"} \ {board.port2} :
            board' = [board EXCEPT !.port2 = p, !.touched = TRUE]
    /\ UNCHANGED <<lib, drv, asked>>

---------------------------------------------------------------------------
\* apiAdcMessageHandler, MsgInit: the defaults, armed once and disarmed.
NoEntry == [kind |-> "analog", chan |-> 0, gain |-> 0, flags |-> {}]
NoEvent == [count |-> 0, source |-> "Immediate", sens |-> "Rising", level |-> 0, variance |-> 0,
            location |-> 0, of |-> NoEntry]
Software == [NoEvent EXCEPT !.source = "Software"]

Defaults ==
    [scan |-> <<[kind |-> "p3", chan |-> 0, gain |-> 0, flags |-> {}]>>, pre |-> 0, post |-> 1,
     mode |-> "InfinitePost", clock |-> [source |-> "AdcClock", flags |-> {}],
     period |-> [ms |-> 1, half |-> 0], source |-> "Software", changed |-> FALSE, active |-> FALSE,
     list |-> [n \in 0 .. 2 |-> IF n = 0 THEN Software ELSE NoEvent]]

AtReset ==
    [list |-> <<>>, cascade |-> [k \in {0, 1} |-> FALSE], port2 |-> "p2local", touched |-> FALSE,
     counter |-> [k \in 0 .. 3 |-> [off |-> TRUE, clear |-> FALSE, rising |-> FALSE]],
     pacer |-> [source |-> "AdcClock", flags |-> {}, divisor |-> [high |-> 0, low |-> 0]],
     trig |-> <<>>, dacs |-> [threshold |-> 0, hysteresis |-> 0], armed |-> FALSE]

Init ==
    /\ lib = Defaults
    /\ drv = [ok |-> TRUE, size |-> 1, pre |-> 0, post |-> 1, clock |-> lib.clock,
              divisor |-> Divisor([ms |-> 1, us |-> 0]), start |-> Software,
              stop |-> [NoEvent EXCEPT !.source = "never"], image |-> Images(lib.scan)]
    /\ board = BoardArmed([AtReset EXCEPT !.list = Words(lib.scan)], drv)
    /\ asked = [start |-> Software, stop |-> "none", whole |-> TRUE,
                period |-> [ms |-> 1, us |-> 0], raised |-> {}]
    /\ calls = 0

Next ==
    \/ \E s \in Scans : SetScan(s)
    \/ \E m \in Muxes : SetMux(m)
    \/ \E a \in Acqs : SetAcq(a)
    \/ \E c \in Clocks : SetClockSource(c)
    \/ \E p \in Periods : SetRate(p) \/ SetFreq(p)
    \/ \E t \in Trigs : SetTrig(t)
    \/ \E n \in {1, 2} : \E t \in Events[n] : SetTriggerEvent(n, t)
    \/ ArmAgain \/ ArmChanged \/ ArmUnmatched
    \/ Disarm
    \/ Elsewhere

Spec == Init /\ [][Next]_vars

---------------------------------------------------------------------------
TypeOK ==
    /\ lib.mode \in Modes /\ Len(lib.scan) \in 1 .. MaxScan /\ lib.active \in BOOLEAN
    /\ drv.ok \in BOOLEAN /\ board.armed \in BOOLEAN /\ calls \in 0 .. MaxCalls

\* What the board samples for word i, and what was asked for: a counter alone,
\* or the half of a pair, with the settings of the last entry that uses it.
Sampled(i) ==
    LET w == board.list[i]
    IN  CASE w.register[1] = "ctr" ->
               LET k == w.register[2]
               IN  IF board.cascade[k % 2] THEN <<IF k < 2 THEN "ctr32lo" ELSE "ctr32hi", k % 2>>
                   ELSE <<"ctr16", k>>
          [] w.register[1] = "p2" -> <<board.port2, w.register[2]>>
          [] OTHER -> w.register

Wanted(e) == CASE e.kind \in {"ctr16", "p2local", "p2exp"} -> <<e.kind, e.chan>>
               [] e.kind \in Cascaded -> <<e.kind, Pair(e)>>
               [] OTHER -> <<e.kind, 0>>

Channel(a) == {a.in} \cup {16 * (a.in + 1) + a.exp}
WellAmplified(a, e) ==
    /\ e.gain = IF e.chan > 15 THEN 4 * a.gain + a.expGain ELSE a.gain
    /\ a.gain \in 0 .. 6 /\ a.in \in 0 .. (IF "diff" \in a.range THEN 7 ELSE 15)

\* While the board is armed its scan list samples, entry by entry, what the
\* caller listed: the input with its gain and expansion, inside the tables of
\* corrections; the counter alone or the right half of its pair, counting as
\* the last entry for it says; the port with the mode that it needs
\* (adcTestConfiguration, adcSetScanSeq, initializeOutputs) - unless a counter
\* or digital call came after the configuration.
ListServed ==
    board.armed /\ ~board.touched =>
        /\ Len(board.list) = Len(lib.scan)
        /\ \A i \in DOMAIN lib.scan :
             LET e == lib.scan[i]
                 w == board.list[i]
             IN  /\ Sampled(i) = Wanted(e)
                 /\ e.kind = "analog" => e.chan \in Channel(w.analog) /\ WellAmplified(w.analog, e)
                 /\ "hold" \in w.flags <=> i > 1
                 /\ w.last <=> i = Len(lib.scan)
                 /\ e.kind \in {"ctr16"} \cup Cascaded =>
                      LET k == IF e.kind = "ctr16" THEN e.chan ELSE Pair(e)
                          like == IF e.kind = "ctr16" THEN {"ctr16"} ELSE Cascaded
                          same == {j \in DOMAIN lib.scan :
                                     Wanted(lib.scan[j])[2] = k /\ lib.scan[j].kind \in like}
                      IN  board.counter[k] = Counts(lib.scan[Max(same)]) @@ [off |-> FALSE]

\* An armed board is paced at exactly the library's period, which is what was
\* asked for, to the us, or the shortest that a scan list configured since
\* could settle in, and never shorter than this one's; an external clock is
\* not paced (adcTestConfiguration, computePacerClockDivisor, setupPacerClock,
\* daqAdcSetRate, daqAdcSetFreq).
PacerExact ==
    board.armed =>
        LET p == Floor(lib.period)
            us(q) == q.ms * Milli + q.us
        IN  /\ board.pacer.source = lib.clock.source
            /\ ~Longer(asked.period, p) /\ (p = asked.period \/ p \in asked.raised)
            /\ ~Longer(Shortest(Request(lib)), p)
            /\ lib.clock.source # "External" =>
                 board.pacer.divisor.high * Limb * Limb + board.pacer.divisor.low = us(p) - 1

\* The driver's configuration is the last accepted calls' whenever the library
\* does not mean to send it again, armed or not: the counts, unless they
\* wrapped; the clock; the events, each at the entry that it is about, unless a
\* stop event alone made an older start the one in use; and the DACs hold the
\* level to the code, unless the level is in the last half of a code below the
\* top. No event that the library took has levels that the driver refuses,
\* unless one is the highest of a signed range, which wraps (daqSetTriggerEvent,
\* daqCalcTriggerVals, daqAdcArm, adcConfigure, adcSetTrig, setupStartEvent).
Start1 == asked.start.source \in {"SoftwareAnalog", "DigPattern"} /\ lib.list[0].count > 0
ArmedAsAsked ==
    lib.active \/ ~lib.changed =>
        /\ drv.ok /\ drv.size = Len(lib.scan) /\ drv.clock = lib.clock
        /\ lib.active => board.armed
        /\ \A n \in {1, 2} :
             EdgeCrossed(lib.list[n]) => Sample \div 2 \in {lib.list[n].level, lib.list[n].variance}
        /\ lib.pre * Len(lib.scan) < DWord => drv.pre = lib.pre
        /\ lib.post * Len(lib.scan) < DWord => drv.post = lib.post
        /\ asked.whole => Location(drv.start) = Location(asked.start)
        /\ asked.whole /\ Start1 => Plain(lib.scan[drv.start.location + 1]) = asked.start.of
        /\ drv.stop.source = (IF lib.mode = "InfinitePost" THEN "never"
                              ELSE IF asked.stop = "none" THEN "ScanCount" ELSE asked.stop)
        /\ board.armed /\ drv.start.source = "HardwareAnalog" =>
             LET d == board.dacs.threshold * Sample - drv.start.level * Code
             IN  DacCode(drv.start.level) = Code \/ (2 * d <= Sample /\ 2 * d >= -Sample)
=============================================================================
