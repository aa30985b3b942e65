---------------------------- MODULE MCServices ----------------------------
(***************************************************************************)
(* Instances for TLC of the services that share no state with each other:  *)
(* timer, level events, counters, digital ports, EEPROM, calibration       *)
(* files, FPGA loading, setting up an acquisition, expansion cards,        *)
(* conversions of raw data and DMA descriptors.  `part` is the service     *)
(* that a behaviour is about; s1 .. s11 are the variables of its module,   *)
(* in their order there, and the timer, about which there is a liveness    *)
(* property, has its own.                                                  *)
(***************************************************************************)
EXTENDS Integers, Sequences

VARIABLES part, s1, s2, s3, s4, s5, s6, s7, s8, s9, s10, s11,
          flag, timer, cb, call, module, reply, hist

timerVars == <<flag, timer, cb, call, module, reply, hist>>
allVars == <<part, s1, s2, s3, s4, s5, s6, s7, s8, s9, s10, s11, timerVars>>

Timer == INSTANCE AdcTimer WITH SMP <- TRUE

Level == INSTANCE LevelEvent WITH
    Word <- 8, Levels <- {0, 2, 5, 9}, ScanLength <- 1, MaxSamples <- 3,
    trig <- s1, hyst <- s2, seen <- s3, hit <- s4

---------------------------------------------------------------------------
Request(lo, hi, opt, val, set) == [lo |-> lo, hi |-> hi, opt |-> opt, val |-> val, set |-> set]
CtrRequests ==
    {Request(0, 0, "cascade", "cascade", TRUE), Request(1, 3, "cascade", "cascade", TRUE),
     Request(2, 2, "cascade", "single", TRUE), Request(0, 2, "edge", "falling", TRUE),
     Request(2, 3, "ctl", "on", TRUE), Request(0, 0, "allctl", "on", TRUE),
     Request(0, 0, "allctl", "clear", TRUE), Request(1, 1, "mode", "total", TRUE),
     Request(0, 3, "div", "div", TRUE), Request(0, 1, "tmr", "on", TRUE),
     Request(0, 0, "alltmr", "on", TRUE), Request(3, 3, "div", "div", FALSE),
     Request(5, 6, "edge", "falling", TRUE)}

Ctr == INSTANCE CtrTmr WITH
    Boards <- {0, 1}, Requests <- CtrRequests, MaxCalls <- 3,
    ch <- s1, call <- s2, counter <- s3, timer <- s4, hw <- s5, stray <- s6,
    wild <- s7, raced <- s8, calls <- s9

---------------------------------------------------------------------------
Call(do, dev, port, bits, val) ==
    [do |-> do, dev |-> dev, port |-> port, bits |-> bits, val |-> val]
DioCalls ==
    {Call("write", "local", "A", 0 .. 7, {0, 7}), Call("write", "local", "A", {3}, {3}),
     Call("write", "local", "CHigh", 0 .. 3, {1}), Call("write", "local", "CLow", 0 .. 3, {2}),
     Call("write", "local", "CHigh", {3}, {3}), Call("write", "local", "C", {5}, {}),
     Call("write", "local", "A", {9}, {9}), Call("read", "local", "A", 0 .. 7, {}),
     Call("read", "local", "CHigh", 0 .. 3, {}), Call("read", "local", "C", {5}, {}),
     Call("write", "exp", "A", {1}, {1}), Call("write", "exp", "B", 0 .. 7, {2}),
     Call("read", "exp", "A", 0 .. 7, {}), Call("write", "p3", "A", {12}, {12}),
     Call("read", "p3", "A", 0 .. 15, {}), Call("mode", "local", "A", {}, {}),
     Call("mode", "local", "CHigh", {}, {0}), Call("mode", "exp", "B", {}, {}),
     Call("mode", "p3", "A", {}, {0})}

Dio == INSTANCE DioPorts WITH
    Calls <- DioCalls, MaxCalls <- 4,
    shadow <- s1, hw <- s2, want <- s3, read <- s4, calls <- s5

---------------------------------------------------------------------------
\* A table of four blocks that overlaps as it does in the chip, a chip in which
\* it comes round, two values for the reference DACs, of which one adds up to the
\* baseline's, and the other one to what corrections add that have been set.
Eeprom == INSTANCE CalEeprom WITH
    Blocks <- 4, FactoryAt <- 3, InfoAt <- 5, Capacity <- 6, Refs <- {"a", "b"},
    RefSum <- [r \in {"a", "b", "0x80"} |-> IF r = "b" THEN 1 ELSE 0], MaxSteps <- 5,
    cells <- s1, ram <- s2, dac <- s3, saving <- s4, board <- s5, told <- s6,
    stored <- s7, steps <- s8

File == INSTANCE CalFile WITH
    Cards <- 2, PerCard <- 2, Room <- [std |-> 1, dbk4 |-> 2], MaxLines <- 5,
    chanCal <- s1, heap <- s2, file <- s3, setup <- s4, wrong <- s5, wrote <- s6,
    mixed <- s7, answer <- s8, tables <- s9, lines <- s10

---------------------------------------------------------------------------
\* Images: what comes before the mark, the mark, and an even or odd rest, with
\* the mark or half of it once more.
FpgaImages ==
    {b \o <<"ff", "20">> \o r :
        b \in {<<>>, <<"x">>, <<"ff">>, <<"ff", "x">>, <<"x", "20">>},
        r \in {<<"a", "b">>, <<"a", "b", "ff", "20">>, <<"ff", "20", "a">>,
               <<"a", "b", "c", "d", "x">>}}

Fpga == INSTANCE FpgaLoad WITH
    Images <- FpgaImages, FF <- "ff", Mark <- "20", Tries <- 3,
    image <- s1, pc <- s2, tries <- s3, newCpld <- s4, at <- s5, chip <- s6, late <- s7

---------------------------------------------------------------------------
\* A clock of 10 us to the ms and limbs of 16, so that a period can take three of
\* them and be a multiple of two; counts of which 33 scans wrap.  The scan lists
\* have each kind of entry, alone, conflicting, and the halves of a pair of
\* counters under either number.
Entry(kind, chan, gain, flags) == [kind |-> kind, chan |-> chan, gain |-> gain, flags |-> flags]
Local == Entry("analog", 0, 1, {"bipolar"})
Signed == Entry("analog", 1, 1, {"bipolar", "signed"})
Differential == Entry("analog", 3, 0, {"bipolar", "diff"})
Card == Entry("analog", 37, 9, {"settle"})
SetupScans ==
    {<<Local>>, <<Signed>>, <<Differential, Local, Card>>, <<Entry("analog", 9, 1, {"diff"})>>,
     <<Entry("ctr32lo", 2, 0, {}), Entry("ctr32hi", 0, 0, {})>>,
     <<Entry("ctr16", 0, 0, {"falling"}), Entry("ctr16", 2, 0, {"totalize"})>>,
     <<Local, Entry("ctr32hi", 3, 0, {"falling"}), Entry("ctr32lo", 1, 0, {})>>,
     <<Entry("ctr16", 1, 0, {}), Entry("ctr32lo", 3, 0, {})>>,
     <<Entry("p2exp", 20, 0, {}), Card, Entry("ctr16", 0, 0, {})>>,
     <<Entry("p2local", 2, 0, {}), Entry("p2exp", 2, 0, {})>>}
Acq(mode, pre, post) == [mode |-> mode, pre |-> pre, post |-> post]
Event(source, sens, level, variance, location, of) ==
    [count |-> 0, source |-> source, sens |-> sens, level |-> level, variance |-> variance,
     location |-> location, of |-> of]
Setup == INSTANCE AcqSetup WITH
    MaxScan <- 4, MaxPre <- 9, Milli <- 10, Longest <- [ms |-> 60, us |-> 6], Limb <- 16,
    Sample <- 16, Code <- 4, DWord <- 64, MaxCalls <- 3,
    Scans <- SetupScans,
    Muxes <- {[first |-> 2, last |-> 3, entry |-> Entry("analog", 0, 2, {"bipolar"})]},
    Acqs <- {Acq("NShot", 5, 3), Acq("NShotRearm", 0, 4), Acq("PrePost", 2, 3),
             Acq("NShot", 0, 33)},
    Clocks <- {[source |-> "Div2", flags |-> {"out"}],
               [source |-> "External", flags |-> {"falling"}]},
    Periods <- {[ms |-> 0, half |-> 1], [ms |-> 0, half |-> 19], [ms |-> 25, half |-> 12],
                [ms |-> 60, half |-> 13]},
    Trigs <- {Event("Immediate", "Rising", 0, 0, 0, Local),
              Event("ExternalTTL", "Rising", 0, 0, 0, Local)},
    Events <- <<{Event("HardwareAnalog", "Above", 7, 2, 0, Local),
                 Event("SoftwareAnalog", "Falling", 11, 3, 0, Card),
                 Event("SoftwareAnalog", "Rising", 0, -5, 0, Signed),
                 Event("SoftwareAnalog", "Falling", 3, 4, 0, Signed)},
                {Event("DigPattern", "EQ", 1, 3, 0, Entry("ctr16", 0, 0, {})),
                 Event("HardwareAnalog", "Above", 1, 3, 0, Local)}>>,
    lib <- s1, drv <- s2, board <- s3, asked <- s4, calls <- s5

---------------------------------------------------------------------------
\* Cards on both banks of eight, of every size, nested in each other; options on
\* the first channel of a card and behind it.
BankOf(c, t) == [chan |-> c, type |-> t]
Option(c, f, v, whole) == [chan |-> c, field |-> f, value |-> v, whole |-> whole]
Gain(c, g) == [chan |-> c, gain |-> g]
Cards == INSTANCE ExpansionCards WITH
    MainUnit <- 8, System <- 16, MaxCalls <- 5,
    Banks <- {BankOf(10, "dbk4"), BankOf(8, "dbk4"), BankOf(13, "dbk7"), BankOf(9, "dbk7"),
              BankOf(12, "dbk50"), BankOf(14, "dbk2"), BankOf(8, "dbk5")},
    Options <- {Option(11, "base", 1, FALSE), Option(10, "base", 1, TRUE),
                Option(11, "freq", 2, TRUE),
                Option(10, "shared", 1, FALSE), Option(11, "gain", 5, FALSE),
                Option(13, "min", 2, FALSE), Option(12, "min", 3, TRUE),
                Option(13, "max", 1, FALSE),
                Option(12, "slope", 0, FALSE), Option(14, "gain", 6, FALSE)},
    Lists <- {<<>>, <<Gain(10, 1), Gain(11, 1)>>, <<Gain(14, 3), Gain(12, 9)>>,
              <<Gain(0, 1), Gain(13, 1)>>},
    Writes <- {[chan |-> 13, value |-> 1]},
    Highest <- [gain |-> 15, freq |-> 2, base |-> 1, debounce |-> 3, min |-> 3, max |-> 3,
                volt |-> 4],
    opt <- s1, card <- s2, cal <- s3, asked <- s4, owed <- s5, lost <- s6, busy <- s7,
    told <- s8, calls <- s9

---------------------------------------------------------------------------
\* Buffers whose length and number of scans have all common divisors, one scan
\* being too long for tempScan; buffers of less than a block, of one and of more.
Raw == INSTANCE RawConversion WITH
    Shapes <- [scans : 0 .. 8, chans : 1 .. 3, ret : {1, 5, 8, 9, 11, 14, 16, 17, 20}],
    TempScan <- 2, MaxCalls <- 2,
    shape <- s1, buf <- s2, loop <- s3, done <- s4, wild <- s5

---------------------------------------------------------------------------
\* Buffers of four pages, two chains of eight descriptors; outputs of every length
\* that waveforms may leave of the buffer, which is more than half.
ChainRings ==
    {[kind |-> "inp", offset |-> o, size |-> 256, pad |-> 0] : o \in {0, 2, 16, 62}} \cup
    {[kind |-> "out", offset |-> o, size |-> 192 - o - s, pad |-> 192 - o] :
        o \in {0, 2, 16, 62}, s \in {2 * i : i \in 0 .. 31}}
Chain == INSTANCE DescriptorChain WITH
    Page <- 64, Count <- 8, Base <- 1024, Rings <- ChainRings,
    ring <- s1, chain <- s2, at <- s3, set <- s4, reads <- s5

\* What the theorem about chains assumes (ChainProofs).
ASSUME ChainAssumption == Chain!Sane

---------------------------------------------------------------------------
\* The variables behind the last one of a part.
After10 == s11 = 0
After9  == s10 = 0 /\ After10
After8  == s9 = 0 /\ After9
After7  == s8 = 0 /\ After8
After5  == s6 = 0 /\ s7 = 0 /\ After7
After4  == s5 = 0 /\ After5
None    == s1 = 0 /\ s2 = 0 /\ s3 = 0 /\ s4 = 0 /\ After4

Rest10 == s11
Rest9  == <<s10, Rest10>>
Rest8  == <<s9, Rest9>>
Rest7  == <<s8, Rest8>>
Rest5  == <<s6, s7, Rest7>>
Rest4  == <<s5, Rest5>>
Rest   == <<s1, s2, s3, s4, Rest4>>

Init ==
    /\ Timer!Init
    /\ \/ part = "timer"  /\ None
       \/ part = "level"  /\ Level!Init  /\ After4
       \/ part = "ctr"    /\ Ctr!Init    /\ After9
       \/ part = "dio"    /\ Dio!Init    /\ After5
       \/ part = "setup"  /\ Setup!Init  /\ After5
       \/ part = "cards"  /\ Cards!Init  /\ After9
       \/ part = "raw"    /\ Raw!Init    /\ After5
       \/ part = "chain"  /\ Chain!Init  /\ After5
       \/ part = "eeprom" /\ Eeprom!Init /\ After8
       \/ part = "file"   /\ File!Init   /\ After10
       \/ part = "fpga"   /\ Fpga!Init   /\ After7

OtherNext ==
    \/ part = "level"  /\ Level!Next  /\ UNCHANGED Rest4
    \/ part = "ctr"    /\ Ctr!Next    /\ UNCHANGED Rest9
    \/ part = "dio"    /\ Dio!Next    /\ UNCHANGED Rest5
    \/ part = "setup"  /\ Setup!Next  /\ UNCHANGED Rest5
    \/ part = "cards"  /\ Cards!Next  /\ UNCHANGED Rest9
    \/ part = "raw"    /\ Raw!Next    /\ UNCHANGED Rest5
    \/ part = "chain"  /\ Chain!Next  /\ UNCHANGED Rest5
    \/ part = "eeprom" /\ Eeprom!Next /\ UNCHANGED Rest8
    \/ part = "file"   /\ File!Next   /\ UNCHANGED Rest10
    \/ part = "fpga"   /\ Fpga!Next   /\ UNCHANGED Rest7

Next ==
    /\ UNCHANGED part
    /\ \/ part = "timer" /\ Timer!Next /\ UNCHANGED Rest
       \/ OtherNext /\ UNCHANGED timerVars

\* The fairness of the timer alone: of the other parts nothing must happen.
TimerStep(A) == part = "timer" /\ A /\ UNCHANGED <<part, Rest>>
Spec == /\ Init /\ [][Next]_allVars
        /\ WF_allVars(TimerStep(Timer!Callback))
        /\ WF_allVars(TimerStep(Timer!Arm /\ call # "none"))

---------------------------------------------------------------------------
\* The properties of the modules, where they are stated with the code that they
\* are about.  That there is one timer, and that it is served (kickstartAdcEvent,
\* adcEventL);
OneTimer == part = "timer" => Timer!TypeOK /\ Timer!OneTimer

\* that adcArm says that an acquisition is armed only when one is;
ArmedMeansArmed == Timer!ArmedMeansArmed

\* that the wait of adcArm ends;
ArmEnds == Timer!ArmEnds

\* that a level or edge event is the first of its signal (checkForLevelEvent);
EventExact == part = "level" => Level!TypeOK /\ Level!EventExact

\* that counters and timers are as the driver reports them (ctrSetOption);
CountersAsReported == part = "ctr" => Ctr!CountersAsReported

\* that digital pins are as they were last written (dioWrite, dioRead);
PinsAsWritten == part = "dio" => Dio!PinsAsWritten

\* that calibration tables are what was saved (calConfigure);
CalTruth == part = "eeprom" => Eeprom!TypeOK /\ Eeprom!CalTruth

\* that conversions use what the file says of their channels (daqReadCalFile);
ConstantsAreTheFiles == part = "file" => File!ConstantsAreTheFiles

\* that the FPGA gets its image from the mark on (loadFpga);
WholeImage == part = "fpga" => Fpga!WholeImage

\* that the board samples what the caller listed, at the period asked for, and is
\* configured as the calls before asked (adcTestConfiguration, adcSetScanSeq,
\* computePacerClockDivisor, daqAdcArm, daqAdcSetRate);
SetupServed ==
    part = "setup" => /\ Setup!TypeOK /\ Setup!ListServed /\ Setup!PacerExact
                      /\ Setup!ArmedAsAsked

\* that the expansion cards have the options that were accepted for them
\* (apiDbkSendChanOptions, daqAdcExpSetBank);
CardsAsAsked == part = "cards" => Cards!TypeOK /\ Cards!CardsAsAsked

\* that a conversion in place keeps the samples (daqCvtRawDataFormat);
SamplesKept == part = "raw" => Raw!SamplesKept

\* that the blocks of a DMA ring cover it, and where their descriptors lead
\* (adcSetupChainDescriptors, dacSetupChainDescriptors).
ChainCovers == part = "chain" => Chain!ChainCovers
=============================================================================
