----------------------------- MODULE MCLiveness -----------------------------
(***************************************************************************)
(* Instances for TLC of what has to come to an end: an acquisition of a    *)
(* scan count in the driver (`part` is "driver"), and the example programs *)
(* on top of the library ("programs").  The two share no state; s1 .. s6   *)
(* are the variables of the part, in the order of its module.              *)
(***************************************************************************)
EXTENDS Integers, Sequences

VARIABLES part, s1, s2, s3, s4, s5, s6

state == <<s1, s2, s3, s4, s5, s6>>
allVars == <<part, state>>

Driver == INSTANCE AdcLiveness WITH
    RingScans <- 3, InBufScans <- 2, ArgScans <- 0, FifoScans <- 1,
    Configs <- {[source |-> "Immediate", stop |-> "ScanCount", pre |-> 0, post |-> 2]},
    Transfers <- {[size |-> 1, cyclic |-> FALSE], [size |-> 2, cyclic |-> TRUE]},
    Signal <- {}, MaxScans <- 4, MaxArms <- 1, MaxLatency <- 2,
    pde <- s1, scans <- s2, fault <- s3, call <- s4, hist <- s5, tick <- s6

Examples == {"Ex02", "Ex03", "Ex04", "Ex05", "Ex06", "Ex07", "Ex08", "Ex10",
             "Ex11", "Ex13", "DBK82"}

Programs == INSTANCE AdcExamples WITH
    Counts <- {0, 2}, Lengths <- {3}, Leftovers <- {0}, Programs <- Examples,
    Scans <- 2, Large <- 3, Top <- 1000, MaxScans <- 4,
    drv <- s1, lib <- s2, call <- s3, prog <- s4, hist <- s5

Init ==
    \/ part = "driver"   /\ Driver!LiveInit
    \/ part = "programs" /\ Programs!Init /\ s6 = 0

Next ==
    /\ UNCHANGED part
    /\ \/ part = "driver"   /\ Driver!LiveNext
       \/ part = "programs" /\ Programs!Next /\ UNCHANGED s6

---------------------------------------------------------------------------
\* The fairness of AdcLiveness and of AdcExamples, of each in its part.
InDriver(P) == part = "driver" /\ P
InPrograms(A) == part = "programs" /\ A /\ UNCHANGED <<part, s6>>

FairDriver ==
    /\ []<>~InDriver(Driver!TimerPending) \/ []<><<Driver!Tick>>_s6
    /\ []<>~InDriver(Driver!IoctlGoes)
    /\ []<>~InDriver(Driver!PacerRuns)

FairPrograms ==
    /\ WF_allVars(InPrograms(Programs!Client))
    /\ WF_allVars(InPrograms(Programs!Proceeds))
    /\ SF_allVars(InPrograms(Programs!TimesOut /\ UNCHANGED s4))
    /\ SF_allVars(InPrograms(Programs!KeyPressed))

Spec == Init /\ [][Next]_allVars /\ FairDriver /\ FairPrograms

---------------------------------------------------------------------------
\* An acquisition of a scan count ends by itself (checkForEvent, adcEventL).
AcquisitionEnds ==
    InDriver(s1.acqActive) ~> part # "driver" \/ ~s1.acqActive \/ s1.die

\* The examples end, ...
ExamplesEnd ==
    []<>(part = "programs" =>
           Programs!Finished \/ s4.at = 1 \/ s5.undefined # "nothing")

\* ... have read their scans by then and leave nothing running.
ExamplesSucceed == part = "programs" => Programs!ExamplesSucceed
=============================================================================
