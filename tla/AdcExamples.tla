----------------------------- MODULE AdcExamples -----------------------------
(***************************************************************************)
(* The programs of src/examples that acquire, and a program that makes any *)
(* call at any time, on AdcSession.  A program runs call after call; at    *)
(* "idle" it goes back by one until the status shows no acquisition, at    *)
(* "key" until somebody presses a key.  A process may end at any step:     *)
(* the kernel closes its descriptor and another program starts.            *)
(***************************************************************************)
EXTENDS AdcSession

CONSTANTS
  Programs, \* names of the programs that may run, and "any"
  Scans,    \* SCANS of the examples
  Large     \* BUFFSIZE: more than SCANS

Plain(n)  == Buffer(n, Mode(TRUE, FALSE, FALSE))
Cyclic(n) == Buffer(n, Mode(TRUE, TRUE, FALSE))

(* Items that make no call: back by one, or on.                             *)
UntilIdle == Ops(<<"idle">>)
UntilKey  == Ops(<<"key">>)

(* A stop on a level or pattern makes no scan count.  daqAdcSoftTrig and   *)
(* the prints change nothing here.                                         *)
DaqAdcEx02 == <<Open, Set(Scans), Plain(Scans), Start, Arm, GetStat, UntilIdle,
                BufData(Scans, "NoWait"), Disarm, Disarm, Close>>
DaqAdcEx03 == <<Open, Set(0), Plain(Large), Start, Arm, BufData(Scans, "Wait"),
                Disarm, Close>>
DaqAdcEx04 == <<Open, Set(Scans), Plain(Scans), SetFile, Start, Arm, WaitData,
                GetStat, GetStat, UntilKey, Disarm, Close>>
DaqAdcEx05 == <<Open, Set(Scans), Plain(Large), Start, Arm, WaitDone,
                BufData(Scans, "NoWait"), Disarm, Close>>
DaqAdcEx06 == <<Open, Set(0), Plain(Large), Start, Arm, WaitDone, GetStat,
                BufData(Scans, "NoWait"), Disarm, Close>>
DaqAdcEx07 == <<Open, Set(Scans), Plain(Scans), Start, Arm, GetStat, UntilIdle,
                BufData(Scans, "Wait"), Disarm, Close>>
DaqAdcEx08 == <<Open, Set(0), Cyclic(Large), Start, Arm, BufData(Scans, "RetAvail"),
                UntilKey, Disarm, Close>>
DaqAdcEx10 == <<Open, Set(Scans), Cyclic(Scans), Start, Arm, GetStat, UntilIdle,
                BufData(Scans, "RetAvail"), Disarm, Close>>
DaqAdcEx11 == <<Open, ReadScanN(1), ReadScanN(Scans), ReadScanN(1),
                ReadScanN(Scans), Close>>
DaqAdcEx13 == <<Open, ReadScanN(1), UntilKey, Close>>
DBK82Ex    == <<Open, Set(Scans), Cyclic(Scans), Start, Arm, GetStat, UntilIdle,
                BufData(Scans, "NoWait"), Disarm, Close>>

Script(name) ==
  CASE name = "Ex02" -> DaqAdcEx02 [] name = "Ex03" -> DaqAdcEx03
    [] name = "Ex04" -> DaqAdcEx04 [] name = "Ex05" -> DaqAdcEx05
    [] name = "Ex06" -> DaqAdcEx06 [] name = "Ex07" -> DaqAdcEx07
    [] name = "Ex08" -> DaqAdcEx08 [] name = "Ex10" -> DaqAdcEx10
    [] name = "Ex11" -> DaqAdcEx11 [] name = "Ex13" -> DaqAdcEx13
    [] name = "DBK82" -> DBK82Ex

Examples == {"Ex02", "Ex03", "Ex04", "Ex05", "Ex06", "Ex07", "Ex08", "Ex10",
             "Ex11", "Ex13", "DBK82"}

ASSUME ExamplesAssumption ==
  /\ Programs \subseteq Examples \cup {"any"}
  /\ \A n \in {Scans, Large} : n \in Nat \ {0} /\ n + MaxScans < Top

AnyCall ==
  {Open, Close, Start, Arm, GetStat, WaitDone, Disarm, Stop, ReadSample(1)}
    \cup {Set(n) : n \in Counts \cup {Refusal}}
    \cup {Buffer(n, m) : n \in Lengths, m \in Modes}
    \cup {BufData(1, "RetNotDone"), BufData(Large, "RetAvail"),
          BufData(Large, "Newest")}
    \cup {BufData(n, "Wait") : n \in 1..Large}

Starts(name) ==
  /\ prog' = [name |-> name, at |-> 1]
  /\ lib' = InitLib /\ call' = NoCall /\ hist' = InitHist

Init ==
  /\ drv = Driver!InitDrv
  /\ lib = InitLib /\ call = NoCall /\ hist = InitHist
  /\ prog \in [name : Programs, at : {1}]

Ready    == call.todo = <<>> /\ hist.undefined = "nothing"
Item     == Script(prog.name)[prog.at]
Finished == prog.name # "any" /\ Ready /\ prog.at > Len(Script(prog.name))
Moves(n) == prog' = [prog EXCEPT !.at = @ + n]

CallAny ==
  /\ Ready /\ prog.name = "any"
  /\ call' \in IF lib.open THEN AnyCall ELSE {Open}
  /\ hist' = [hist EXCEPT !.failed = {}]
  /\ UNCHANGED <<drv, lib, prog>>

CallNext ==
  /\ Ready /\ prog.name # "any" /\ ~Finished
  /\ \/ Item = UntilIdle /\ Moves(IF lib.acq THEN -1 ELSE 1) /\ UNCHANGED call
     \/ Item = UntilKey /\ (Moves(-1) \/ Moves(1)) /\ UNCHANGED call
     \/ Item \notin {UntilIdle, UntilKey} /\ call' = Item /\ Moves(1)
  /\ UNCHANGED <<drv, lib, hist>>

(* The end of the process, of its own or not.                              *)
Exit ==
  /\ drv' = IF lib.open THEN Flushed(drv) ELSE drv
  /\ \E name \in Programs : Starts(name)

Client == Step \/ CallAny \/ CallNext

Next == Client \/ DriverStep \/ Exit

(* The clock goes on while a call waits, a key is pressed at last, and an  *)
(* acquisition of a scan count that has its transfer proceeds (endings).   *)
Proceeds == DriverStep /\ drv.xfer /\ drv' # drv
KeyPressed == Ready /\ prog.name # "any" /\ ~Finished /\ Item = UntilKey
                /\ Moves(1) /\ UNCHANGED <<drv, lib, call, hist>>

Fairness ==
  /\ WF_vars(Client) /\ WF_vars(Proceeds)
  /\ SF_vars(TimesOut /\ UNCHANGED prog) /\ SF_vars(KeyPressed)

Spec == Init /\ [][Next]_vars /\ Fairness
-----------------------------------------------------------------------------
(* No example runs into free() of a mapped buffer or past the end of the   *)
(* ring, and those that stop on a scan count have copied all their scans   *)
(* by then and leave nothing running, if the device did not fail.             *)
Complete == {"Ex02", "Ex05", "Ex07", "Ex10", "Ex11", "DBK82"}

ExamplesSucceed ==
  /\ hist.undefined \in {"nothing", "read"}
  /\ Finished /\ "device" \notin hist.failed =>
       ~lib.acq /\ ~drv.acq /\ ~drv.xfer /\ (prog.name \in Complete => hist.read = Scans)

(* The examples end, unless they are killed: waits time out, and the loops *)
(* on the status see the end of the acquisition.                           *)
ExamplesEnd == []<>(Finished \/ prog.at = 1 \/ hist.undefined # "nothing")
=============================================================================
