------------------------------ MODULE FpgaLoad ------------------------------
(***************************************************************************)
(* loadFpga (db2kdriver/linux_init_utils.c): the configuration of the FPGA *)
(* through the CPLD of the board.  Up to three tries, each from the start: *)
(* pulse the PROG pin, look for the mark ff 20 in the image, send the rest *)
(* word by word.  The INIT line falls when the FPGA finds an error; a new  *)
(* CPLD says when it has passed a word on, but the driver only waits so    *)
(* long.                                                                   *)
(***************************************************************************)
EXTENDS Integers, Sequences

CONSTANTS Images,     \* the images: sequences of bytes
          FF, Mark,   \* the bytes 0xff and 0x20
          Tries       \* numberOfTrys

VARIABLES image,   \* bTopBitArray
          pc,      \* the next step of loadFpga, or "loaded", "failed"
          tries,   \* numberOfTrys
          newCpld,
          at,      \* tbLocation, fileSize
          chip,    \* what the CPLD has been sent and has passed on since PROG
          late     \* history: a word was sent although the CPLD was not ready

vars == <<image, pc, tries, newCpld, at, chip, late>>

Empty == [sent |-> <<>>, got |-> <<>>]

Init == /\ image \in Images
        /\ pc = "try" /\ tries = Tries /\ newCpld = FALSE
        /\ at = [loc |-> 0, size |-> 0] /\ chip = Empty /\ late = FALSE

Byte(k) == image[k + 1]      \* bTopBitArray[k]

\* The next try, or the end of the tries.
Again(left) == pc' = IF left = 0 THEN "failed" ELSE "try"

\* resetLocalBus, reloadPLX, pulseProgPin; INIT may not come within 20 ms.
ProgAgain == chip' = chip   \* mutant: the PROG pin is not pulsed again
Prog == chip' = Empty

Try ==
    /\ pc = "try"
    /\ tries' = tries - 1
    /\ Prog
    /\ \/ Again(tries - 1) /\ UNCHANGED newCpld
       \/ /\ pc' = "search"
          /\ \E new \in BOOLEAN : newCpld' = (newCpld \/ new)
    /\ UNCHANGED <<image, at, late>>

\* The search for the mark.  `byte` is fpgaByte; the byte after an ff is looked
\* at twice, so that ff ff 20 is found.  Images have the mark and more after it.
\* (One that ends in its first ff would be read past its end: fileSize is 0 when
\* it is counted down again.)
Searched(loc, byte) ==
    LET skip[k \in Nat, b \in {FF, Mark, "no"} \cup {Byte(j) : j \in 0 .. Len(image) - 1}] ==
          IF b # FF THEN skip[k + 1, Byte(k)]
          ELSE IF Byte(k) = Mark THEN k + 1
          ELSE skip[k + 1, Byte(k)]
    IN skip[loc, byte]

Search ==
    /\ pc = "search"
    /\ LET loc == Searched(0, "no") IN
       at' = [loc |-> loc, size |-> Len(image) - loc]
    /\ pc' = "first"
    /\ UNCHANGED <<image, tries, newCpld, chip, late>>

\* waitForCPLD and writeCPLD of a word.  A new CPLD may not be ready after
\* 10000 looks; the word is sent all the same, and lost.
Send(word) ==
    \/ /\ chip' = [sent |-> Append(chip.sent, word), got |-> Append(chip.got, word)]
       /\ UNCHANGED late
    \/ /\ newCpld /\ late' = TRUE
       /\ chip' = [chip EXCEPT !.sent = Append(@, word)]

\* The first word, and fileSize /= 2.
SendFirst ==
    /\ pc = "first"
    /\ Send(<<FF, Mark>>)
    /\ \/ at' = [at EXCEPT !.size = @ \div 2] /\ pc' = "rest"
       \/ UNCHANGED at /\ Again(tries)          \* INIT fell
    /\ UNCHANGED <<image, tries, newCpld>>

SendWord ==
    /\ pc = "rest" /\ at.size > 0
    /\ Send(<<Byte(at.loc), Byte(at.loc + 1)>>)
    /\ \/ at' = [loc |-> at.loc + 2, size |-> at.size - 1] /\ UNCHANGED pc
       \/ UNCHANGED at /\ Again(tries)
    /\ UNCHANGED <<image, tries, newCpld>>

\* pollFPGADone.  The FPGA says so when it has got the whole of the image;
\* then, and after the last try, resetLocalBus and reloadPLX.
Bits == LET m == CHOOSE k \in 1 .. Len(image) - 1 :
                     /\ image[k] = FF /\ image[k + 1] = Mark
                     /\ \A j \in 1 .. k - 1 : ~(image[j] = FF /\ image[j + 1] = Mark)
        IN [i \in 1 .. (Len(image) - m + 1) \div 2 |-> <<image[m + 2*i - 2], image[m + 2*i - 1]>>]

Done ==
    /\ pc = "rest" /\ at.size = 0
    /\ IF chip.got = Bits THEN pc' = "loaded" ELSE Again(tries)
    /\ UNCHANGED <<image, tries, newCpld, at, chip, late>>

Next == Try \/ Search \/ SendFirst \/ SendWord \/ Done

Spec == Init /\ [][Next]_vars

---------------------------------------------------------------------------
\* Whatever went wrong in the tries before, what has been sent since the last
\* PROG pulse is a beginning of the image from its mark on, word by word, and
\* the whole of it when the driver asks for DONE: so a try in which INIT stays
\* up and the CPLD is ready in time loads the board, also an image that does
\* not end on a word (its last byte is left out) or has an ff before the mark.
WholeImage ==
    /\ pc \in {"rest", "loaded"} =>
          /\ Len(chip.sent) <= Len(Bits)
          /\ chip.sent = SubSeq(Bits, 1, Len(chip.sent))
    /\ pc = "rest" /\ at.size = 0 => chip.sent = Bits
=============================================================================
