------------------------------ MODULE DioPorts ------------------------------
(***************************************************************************)
(* Digital I/O: apiDioReadWriteValue and the port modes of daqSetOption in *)
(* the library (apidio.c, apidbk.c setDigitalOptions), dioRead and         *)
(* dioWrite in the driver (dio.c).  One thread calls the library: the      *)
(* mutex around its ioctls is a stub (linux_daqx.c:546) and in_buf, where  *)
(* the driver has the arguments, is one for the board, so that the calls   *)
(* of two threads would take each other's ports and values.                *)
(* Values are sets of bits; the expansion ports are those of one 8255.     *)
(***************************************************************************)
EXTENDS Integers

CONSTANTS Calls,       \* [do, dev, port, bits, val]: what a program calls; bits is
                       \* all of them, or the one of daqIOReadBit and daqIOWriteBit
          MaxCalls     \* bound: calls

VARIABLES shadow,   \* p28255OutputShadow, p2ExpansionOutputShadow, p3HSIOOutputShadow,
                    \* p3HSIOConfig
          hw,       \* the ports behind the registers, and dioControl
          want,     \* history: what has last been written to each pin
          read,     \* what the last read has been told, and what the pins were
          calls

vars == <<shadow, hw, want, read, calls>>

Devices == {"local", "exp", "p3"}
Offsets == 0 .. 3
IR(dev) == IF dev = "p3" THEN 1 ELSE 3     \* offset of the configuration
Offset(c) == CASE c.port = "IR" -> IR(c.dev)
               [] c.port = "A" -> 0
               [] c.port = "B" -> 1
               [] c.port \in {"C", "CHigh", "CLow"} -> 2

NoPins == [d \in Devices |-> [o \in Offsets |-> {}]]

Init ==
    /\ shadow = NoPins /\ want = NoPins
    /\ hw = [control |-> "82c55", pins |-> NoPins]
    /\ read = [told |-> {}, pins |-> {}]
    /\ calls = 0

---------------------------------------------------------------------------
\* apiDioReadWriteValue: the mask of the caller is cut to the port, and shifted
\* with the value for the upper half of C.
Up(bits, port) == IF port = "CHigh" THEN {b + 4 : b \in bits} ELSE bits
Down(bits, port) == IF port = "CHigh" THEN {b - 4 : b \in bits \cap (4 .. 31)} ELSE bits
PortBits(c) == CASE c.port \in {"CHigh", "CLow"} -> 0 .. 3
                 [] c.dev = "p3" -> 0 .. 15
                 [] OTHER -> 0 .. 7
Cut(c) == c.bits \cap PortBits(c)

Mask(c) == Up(Cut(c), c.port)
Value(c) == Up(c.val \cap Cut(c), c.port)

\* setDigitalOptions: the bits of the configuration that stay, and those that
\* are set for an input.
Keeps(off) == CASE off = 0 -> {0, 1, 3} [] off = 1 -> {0, 3, 4} [] OTHER -> {1, 4}
Input(off) == CASE off = 0 -> {4} [] off = 1 -> {1} [] OTHER -> {0, 3}
Configured(conf, off, out) == (conf \cap Keeps(off)) \cup {7} \cup (IF out THEN {} ELSE Input(off))

---------------------------------------------------------------------------
\* dioRead and dioWrite.  The registers of local and expansion ports are the
\* same: dioControl tells which of them is meant, and the direction of P3.
Control(dev, off, val) ==
    CASE dev = "local" -> "82c55"
      [] dev = "exp" -> "expansion"
      [] dev = "p3" -> IF off = 0 THEN hw.control ELSE IF val = {} THEN "input" ELSE "output"

Behind(control, dev) ==
    IF dev = "p3" THEN "p3" ELSE IF control = "82c55" THEN "local" ELSE "exp"

\* p28255OutputShadow has three entries: the configuration of the local ports
\* is kept in p2ExpansionOutputShadow[0].
Place(dev, off) == IF dev = "local" /\ off = 3 THEN <<"exp", 0>> ELSE <<dev, off>>

MergedAll(old, val, mask) == val   \* mutant: the write is not masked
Merged(old, val, mask) == (val \cap mask) \cup (old \ mask)

DioWrite(dev, off, val, mask) ==
    LET p == Place(dev, off)
        new == IF dev = "p3" /\ off = 1 THEN val ELSE Merged(shadow[p[1]][p[2]], val, mask)
        control == Control(dev, off, val)
    IN /\ shadow' = [shadow EXCEPT ![p[1]][p[2]] = new]
       /\ hw' = [control |-> control,
                 pins |-> [hw.pins EXCEPT ![Behind(control, dev)][off] = new]]

DioRead(dev, off) ==
    IF dev = "p3" /\ off = 1 THEN shadow["p3"][1]
    ELSE hw.pins[Behind(Control(dev, off, {}), dev)][off]

Reads(dev, off) == hw' = [hw EXCEPT !.control = IF off = 1 /\ dev = "p3" THEN @
                                                ELSE Control(dev, off, {})]

---------------------------------------------------------------------------
\* The calls of a program.  One with no bit left returns DerrInvBitNum.
Wants(dev, off, named, val) == want' = [want EXCEPT ![dev][off] = (@ \ named) \cup val]

DaqIOWrite(c) ==
    /\ c.do = "write" /\ Cut(c) # {}
    /\ DioWrite(c.dev, Offset(c), Value(c), Mask(c))
    /\ Wants(c.dev, Offset(c), Up(Cut(c), c.port), Value(c))
    /\ UNCHANGED read

DaqIORead(c) ==
    /\ c.do = "read" /\ Cut(c) # {}
    /\ Reads(c.dev, Offset(c))
    /\ read' = [told |-> Down(DioRead(c.dev, Offset(c)), c.port) \cap Cut(c),
                pins |-> {b \in Cut(c) : Up({b}, c.port) \subseteq want[c.dev][Offset(c)]}]
    /\ UNCHANGED <<shadow, want>>

\* daqSetOption of the mode of a port: reads the configuration and writes it.
SetMode(c) ==
    /\ c.do = "mode"
    /\ LET out == c.val # {}
           conf == Configured(DioRead(c.dev, 3), Offset(c), out) IN
       IF c.dev = "p3"
       THEN /\ DioWrite("p3", 1, c.val, 0 .. 15)
            /\ Wants("p3", 1, 0 .. 15, c.val)
       ELSE /\ DioWrite(c.dev, 3, conf, 0 .. 7)
            /\ Wants(c.dev, 3, Input(Offset(c)), {7} \cup (IF out THEN {} ELSE Input(Offset(c))))
    /\ UNCHANGED read

Next == /\ calls < MaxCalls /\ calls' = calls + 1
        /\ \E c \in Calls : DaqIOWrite(c) \/ DaqIORead(c) \/ SetMode(c)

Spec == Init /\ [][Next]_vars

---------------------------------------------------------------------------
\* After any sequence of calls each pin, and each bit of a configuration, is
\* what was last written to it, by itself, with its half, with its port or as a
\* mode; writes and modes of other pins leave it alone, and a read is told so.
\* But the configuration of the local ports stays in the shadow of expansion
\* port A (dio.c:143, device.h:615): the bits of it that a later write to that
\* port does not name come out there.
PinsAsWritten ==
    LET clobbered == want["local"][3] # {} IN
    /\ \A d \in Devices : \A o \in Offsets :
          hw.pins[d][o] = want[d][o] \/ (clobbered /\ d = "exp" /\ o = 0)
    /\ read.told = read.pins \/ clobbered
=============================================================================
