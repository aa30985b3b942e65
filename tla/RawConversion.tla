--------------------------- MODULE RawConversion ---------------------------
(***************************************************************************)
(* daqCvtRawDataFormat (apiadc.c): what a program does in place with a     *)
(* buffer it has read.  A cyclic buffer is rotated until its oldest scan   *)
(* comes first, cycle by cycle and one copyScan at a time; blocks of four  *)
(* samples are packed into three words and unpacked.  The buffer starts as *)
(* a transfer left it: sample k of scan n is <<n, k>>, and a word is the   *)
(* four nibbles of such samples, the highest first.                        *)
(***************************************************************************)
EXTENDS Integers, Sequences

CONSTANTS Shapes,   \* [scans, chans, ret]: scanCount, chanCount, retCount
          TempScan, \* samples in tempScan
          MaxCalls  \* bound: conversions of one buffer

VARIABLES shape,
          buf,   \* words, from 0
          loop,  \* the rotation under way: [pass, put, get, temp], or Idle
          done,  \* history: the conversions made
          wild   \* something was written or divided that C leaves undefined

vars == <<shape, buf, loop, done, wild>>

Idle == [pass |-> -1, put |-> -1, get |-> -1, temp |-> <<>>]
Cells == 0 .. shape.scans * shape.chans - 1
Nibble == 0 .. 3
Zero == "0"
Word(sample) == [i \in Nibble |-> <<sample, i>>]

(* The cyclic buffer after ret scans, of which it holds the last.          *)
ScanAt(s, n) == IF s.ret <= s.scans THEN n
                ELSE (s.ret - s.scans) + ((n - s.ret) % s.scans)
Filled(s) ==
    [c \in 0 .. s.scans * s.chans - 1 |->
        Word(<<ScanAt(s, c \div s.chans), c % s.chans>>)]

Init ==
    /\ shape \in Shapes
    /\ buf = Filled(shape)
    /\ loop = Idle /\ done = <<>> /\ wild = FALSE

Calls(action) ==
    /\ loop = Idle /\ ~wild /\ Len(done) < MaxCalls
    /\ done' = Append(done, action)
    /\ UNCHANGED shape
-----------------------------------------------------------------------------
(* daqAdcBufferRotate.                                                     *)
gcd[a \in Nat, b \in Nat] == IF b = 0 THEN a ELSE gcd[b, a % b]

Pivot == shape.ret % shape.scans
OnePass == 1   \* mutant: the cycles after the first are forgotten
Passes == gcd[shape.scans, Pivot]

Scan(b, n) == [k \in 0 .. shape.chans - 1 |-> b[n * shape.chans + k]]
Copied(b, n, scan) ==
    [c \in DOMAIN b |-> IF c \div shape.chans = n THEN scan[c % shape.chans] ELSE b[c]]

Pass(p) == [pass |-> p, put |-> p, get |-> p + Pivot, temp |-> Scan(buf, p)]

NextGet(get) ==
    LET end == shape.scans - Pivot
    IN  IF get >= end THEN get - end ELSE get + Pivot

Rotate ==
    /\ Calls("rotate")
    /\ IF shape.ret <= shape.scans THEN UNCHANGED <<buf, loop, wild>>
       ELSE IF shape.scans = 0 \/ (Pivot # 0 /\ shape.chans > TempScan)
       THEN wild' = TRUE /\ UNCHANGED <<buf, loop>>
       ELSE /\ loop' = IF Pivot = 0 THEN Idle ELSE Pass(0)
            /\ UNCHANGED <<buf, wild>>

(* One copyScan of the do loop; that which ends a pass puts tempScan back  *)
(* and takes the first scan of the next.                                   *)
CopyScan ==
    /\ loop # Idle
    /\ LET moved == Copied(buf, loop.put, Scan(buf, loop.get))
           next == NextGet(loop.get)
       IN  IF next # loop.pass
           THEN /\ buf' = moved
                /\ loop' = [loop EXCEPT !.put = loop.get, !.get = next]
           ELSE /\ buf' = Copied(moved, loop.get, loop.temp)
                /\ loop' = IF loop.pass + 1 < Passes THEN Pass(loop.pass + 1) ELSE Idle
    /\ UNCHANGED <<shape, done, wild>>
-----------------------------------------------------------------------------
(* PackData and UnpackData set nBlocks to 1: whatever the buffer holds,    *)
(* the first block is packed and the last unpacked.  Words 0 to 2 of a     *)
(* packed block carry the nibbles of its first sample on top.              *)
Blocks == (shape.scans * shape.chans) \div 4

PackedWord(first, high, sample) ==
    [i \in Nibble |-> IF i = 0 THEN first[high] ELSE sample[i - 1]]

PackInPlace(b) ==
    [b EXCEPT ![0] = PackedWord(b[0], 2, b[1]),
              ![1] = PackedWord(b[0], 1, b[2]),
              ![2] = PackedWord(b[0], 0, b[3])]

Unpacked(word) == [i \in Nibble |-> IF i = 3 THEN Zero ELSE word[i + 1]]
FirstOf(p0, p1, p2) ==
    [i \in Nibble |-> CASE i = 0 -> p2[0] [] i = 1 -> p1[0] [] i = 2 -> p0[0] [] i = 3 -> Zero]

UnpackInPlace(b, from, to) ==
    [b EXCEPT ![to + 3] = Unpacked(b[from + 2]), ![to + 2] = Unpacked(b[from + 1]),
              ![to + 1] = Unpacked(b[from]), ![to] = FirstOf(b[from], b[from + 1], b[from + 2])]

(* With less than a block in the buffer PackData reads behind it and       *)
(* UnpackData writes in front of it.  The pointers to the last block count *)
(* blocks of their own size, four words to unpack to and three to read.    *)
Converts(action, result) ==
    /\ Calls(action)
    /\ IF Blocks = 0 THEN wild' = TRUE /\ UNCHANGED buf
       ELSE buf' = result /\ UNCHANGED wild
    /\ UNCHANGED loop

Pack   == Converts("pack", PackInPlace(buf))
Unpack == Converts("unpack", UnpackInPlace(buf, 3 * (Blocks - 1), 4 * (Blocks - 1)))

Next == Rotate \/ CopyScan \/ Pack \/ Unpack

Spec == Init /\ [][Next]_vars
-----------------------------------------------------------------------------
(* A cyclic buffer that has come round is, once rotated, in the order in   *)
(* which its scans were taken, whatever number of cycles that took.        *)
Untouched == ~wild /\ loop = Idle
OldestFirst ==
    Untouched /\ done = <<"rotate">> =>
        LET first == IF shape.ret > shape.scans THEN shape.ret - shape.scans ELSE 0
        IN  \A c \in Cells : buf[c] = Word(<<first + c \div shape.chans, c % shape.chans>>)

(* A block that is packed and unpacked loses the last nibble of its        *)
(* samples, and only where it is the only block of its buffer: of a longer *)
(* one the first is packed and the last unpacked.                          *)
RoundTrip ==
    Untouched /\ done = <<"pack", "unpack">> /\ Blocks = 1 =>
        \A c \in Cells :
            buf[c] = IF c < 4 THEN [Filled(shape)[c] EXCEPT ![3] = Zero] ELSE Filled(shape)[c]

OneBlock ==
    \A c \in Cells :
        /\ Untouched /\ done = <<"pack">> /\ c > 2 => buf[c] = Filled(shape)[c]
        /\ Untouched /\ done = <<"unpack">> /\ c \notin 4 * (Blocks - 1) .. 4 * Blocks - 1
              => buf[c] = Filled(shape)[c]

(* A conversion keeps the samples it is given, up to what is stated above. *)
SamplesKept == OldestFirst /\ RoundTrip /\ OneBlock
=============================================================================
