----------------------------- MODULE CalEeprom -----------------------------
(***************************************************************************)
(* The calibration tables of one board (cal.c): the table in memory        *)
(* (pde->eeprom), the two tables and the board information in the serial   *)
(* EEPROM, the reference DACs, and the operations of CAL_CONFIG.           *)
(*                                                                         *)
(* A saved table is a row of blocks of 16 words; the EEPROM is a function  *)
(* from blocks to what has been written there.  The addresses are the      *)
(* driver's, scaled: with INT and DWORD of 4 bytes an eepromT has 2,760    *)
(* bytes, so that the user table at 0 ends behind the start of the factory *)
(* table at 0x800, and this one covers the board information at 0xfe0.     *)
(* The chip is external: whether a table that leaves it at its end goes on *)
(* at its start (Capacity), and whether the protection bit that a save of  *)
(* the user table sets (cal.c:262) covers its upper half.                  *)
(***************************************************************************)
EXTENDS Integers, FiniteSets, FiniteSetsExt

CONSTANTS Blocks,        \* blocks of a table
          FactoryAt,     \* FACTORY_CAL_ADDRESS; USER_CAL_ADDRESS is block 0
          InfoAt,        \* BOARD_INFORMATION
          Capacity,      \* blocks of the chip
          Refs,          \* values of the reference DACs, the baseline 0x80 excluded
          RefSum,        \* what their bytes add to the checksum, over the baseline
          MaxSteps       \* bound: operations and power cycles

VARIABLES
    cells,   \* the EEPROM: [img, part] for a block of a table, [serial] for the
             \* board information, Blank
    ram,     \* pde->eeprom: the image in memory, [ref, corr, time]
    dac,     \* what the reference DACs have been given
    saving,  \* the save that runs: [table, next], or Idle
    board,   \* power, protection and pde->psite.serialNumber
    told,    \* history: the last answer, [op, table, ok, img]
    stored,  \* history: the images whose blocks have all been written, by table
    steps

vars == <<cells, ram, dac, saving, board, told, stored, steps>>

Tables == {"factory", "user"}
Base == "0x80"
Idle == [table |-> "none", next |-> 0]
Blank == [img |-> "none", part |-> -2]
Info(serial) == [img |-> serial, part |-> -1]
Part(img, k) == [img |-> img, part |-> k]
Images == [ref : Refs \cup {Base}, corr : {"base", "set"}, time : {0, 1}]

Start(t) == IF t = "factory" THEN FactoryAt ELSE 0
Cell(t, k) == (Start(t) + k) % Capacity
Protected(t) == board.protects /\ t = "user"
Fixed(t, c) == Protected(t) /\ c >= Capacity \div 2

TypeOK ==
    /\ ram \in Images /\ dac \in Refs \cup {Base, "off"}
    /\ saving.table \in Tables \cup {"none"} /\ saving.next \in 0 .. Blocks
    /\ steps \in 0 .. MaxSteps

---------------------------------------------------------------------------
\* computeCalConstantsChecksum: the last block has the byte that makes all bytes
\* of a table add up to 0.  The corrections are in the first blocks, references and
\* testTime in the one before the last (device.h:428-443); what is the same in all
\* tables is counted as 0, and what is no block of a table does not add up.
Weight(img) == (RefSum[img.ref] + (IF img.corr = "set" THEN 1 ELSE 0) + img.time) % 256
Refers == Blocks - 2
BlockSum(cell) ==
    IF cell.part < 0 THEN 128
    ELSE IF cell.part = 0 THEN IF cell.img.corr = "set" THEN 1 ELSE 0
    ELSE IF cell.part = Refers THEN RefSum[cell.img.ref] + cell.img.time
    ELSE IF cell.part = Blocks - 1 THEN 256 - Weight(cell.img) ELSE 0
AddsUp(c, t) == MapThenSumSet(LAMBDA k : BlockSum(c[Cell(t, k)]), 0 .. Blocks - 1) % 256 = 0

\* The table that the blocks make, whichever saves they are of.
Composed(c, t) ==
    LET first == c[Cell(t, 0)].img  refers == c[Cell(t, Refers)].img
    IN  [ref |-> refers.ref, corr |-> first.corr, time |-> refers.time]

\* verifyCalConstants: preamble and postamble are where they belong, and the bytes
\* add up.
EndsFit(c, t) == \A k \in {0, Blocks - 1} : c[Cell(t, k)].part = k
VerifiedAtEnds(c, t) ==   \* mutant: preamble and postamble, no checksum
    IF EndsFit(c, t) /\ c[Cell(t, Refers)].part = Refers THEN {Composed(c, t)} ELSE {}
Verified(c, t) == IF EndsFit(c, t) /\ AddsUp(c, t) THEN {Composed(c, t)} ELSE {}

\* readCalConstants: the table goes to memory as it is read, and when it does not
\* verify the corrections and references are set to the baseline; testTime stays
\* what the words there happened to be.
Baseline(time) == [ref |-> Base, corr |-> "base", time |-> time]
Reads(c, t) == IF Verified(c, t) # {} THEN Verified(c, t) ELSE {Baseline(x) : x \in {0, 1}}

\* readBoardInfo
Serial(c) == IF c[InfoAt].part = -1 THEN c[InfoAt].img ELSE "unknown"

\* The EEPROM as the board comes: a factory table of this layout, over the board
\* information, or the board information and no table that this driver can read.
Made == [ref |-> CHOOSE r \in Refs : TRUE, corr |-> "set", time |-> 1]
Init ==
    /\ \E whole, p \in BOOLEAN :
        /\ cells = [c \in 0 .. Capacity - 1 |->
                IF \E k \in 0 .. Blocks - 1 : c = Cell("factory", k) /\ (whole \/ c # InfoAt)
                THEN Part(Made, CHOOSE k \in 0 .. Blocks - 1 : c = Cell("factory", k))
                ELSE IF c = InfoAt THEN Info("made") ELSE Blank]
        /\ board = [on |-> FALSE, protects |-> p, serial |-> "unknown"]
    /\ ram = Baseline(0) /\ dac = "off" /\ saving = Idle
    /\ told = [op |-> "none", table |-> "none", ok |-> TRUE, img |-> ram]
    /\ stored = [t \in Tables |-> {}]
    /\ steps = 0

Step == steps < MaxSteps /\ steps' = steps + 1
Ready == board.on /\ saving = Idle
Answer(op, t, ok, img) == told' = [op |-> op, table |-> t, ok |-> ok, img |-> img]

---------------------------------------------------------------------------
\* The module is loaded: getBoardInfo reads the serial number, initializeAdc the
\* factory table, and the reference DACs are set whatever came of it.
Load ==
    /\ ~board.on /\ Step
    /\ ram' \in Reads(cells, "factory")
    /\ dac' = ram'.ref
    /\ board' = [board EXCEPT !.on = TRUE, !.serial = Serial(cells)]
    /\ Answer("load", "factory", Verified(cells, "factory") # {}, ram')
    /\ UNCHANGED <<cells, saving, stored>>

\* The power fails, or the module is removed: a save stops where it is.
PowerOff ==
    /\ board.on /\ Step
    /\ board' = [board EXCEPT !.on = FALSE] /\ saving' = Idle
    /\ ram' = Baseline(0) /\ dac' = "off"
    /\ Answer("off", "none", TRUE, ram')
    /\ UNCHANGED <<cells, stored>>

\* CoSetConstants, CoSetTrigDacConstants: the table in memory only.
SetConstants ==
    /\ Ready /\ Step
    /\ ram' = [ram EXCEPT !.corr = "set"]
    /\ Answer("set", "none", TRUE, ram')
    /\ UNCHANGED <<cells, dac, saving, board, stored>>

\* CoSetRefDacConstants: memory, then the DAC.
SetRefDac(r) ==
    /\ Ready /\ Step
    /\ ram' = [ram EXCEPT !.ref = r] /\ dac' = r
    /\ Answer("set", "none", TRUE, ram')
    /\ UNCHANGED <<cells, saving, board, stored>>

\* CoSelectTable: the DACs are set for a table that verifies, not for the baseline
\* that takes the place of one that does not.
Activated(ok, ref) == IF ok THEN ref ELSE dac
SelectTable(t) ==
    /\ Ready /\ Step
    /\ IF t = "baseline"
       THEN ram' = Baseline(ram.time) /\ dac' = Base /\ Answer("select", t, TRUE, ram')
       ELSE LET ok == Verified(cells, t) # {} IN
            /\ ram' \in Reads(cells, t)
            /\ dac' = Activated(ok, ram'.ref)
            /\ Answer("select", t, ok, ram')
    /\ UNCHANGED <<cells, saving, board, stored>>

\* daqCalSelectCalTable passes a table on that exists; the constants that it adds
\* are those of a normal input.  The library refuses its other calls for the EEPROM
\* to these boards: SetConstants, SetRefDac and SaveTable are ioctls of a program.
CalSelectCalTable == \E t \in Tables \cup {"baseline"} : SelectTable(t)

---------------------------------------------------------------------------
\* CoSaveTable: without the password a save of the factory table is refused; with
\* it the board information is written first.
SaveTable(t, password) ==
    /\ Ready /\ Step
    /\ IF t = "factory" /\ ~password
       THEN /\ Answer("refused", t, FALSE, ram)
            /\ UNCHANGED <<cells, saving>>
       ELSE /\ saving' = [table |-> t, next |-> 0]
            /\ cells' = IF t = "user" THEN cells
                        ELSE [cells EXCEPT ![InfoAt] = Info("new")]
            /\ Answer("saving", t, TRUE, ram)
    /\ UNCHANGED <<ram, dac, board, stored>>

\* writeBlockToEEPROM: one block; the chip ignores it where it is protected.
WrittenTo(t, k) ==
    LET c == Cell(t, k) IN
    IF Fixed(t, c) THEN cells ELSE [cells EXCEPT ![c] = Part(ram, k)]
WriteBlock ==
    /\ saving # Idle /\ saving.next < Blocks
    /\ cells' = WrittenTo(saving.table, saving.next)
    /\ saving' = [saving EXCEPT !.next = @ + 1]
    /\ stored' = IF saving.next = Blocks - 1
                    /\ \A k \in 0 .. Blocks - 1 : ~Fixed(saving.table, Cell(saving.table, k))
                 THEN [stored EXCEPT ![saving.table] = @ \cup {ram}] ELSE stored
    /\ UNCHANGED <<ram, dac, board, told, steps>>

\* writeCalConstants at its end: the table is read back into memory, and the save
\* is taken to have failed when it does not verify or testTime is not 1, which
\* nothing in the driver ever sets.
Saved(ok, time) == ok /\ time = 1
SaveDone ==
    /\ saving # Idle /\ saving.next = Blocks
    /\ LET t == saving.table
           ok == Verified(cells, t) # {} IN
       /\ ram' \in Reads(cells, t)
       /\ Answer("save", t, Saved(ok, ram'.time), ram)
    /\ saving' = Idle
    /\ UNCHANGED <<cells, dac, board, stored, steps>>

Next ==
    \/ Load \/ PowerOff \/ SetConstants
    \/ \E r \in Refs : SetRefDac(r)
    \/ CalSelectCalTable
    \/ \E t \in Tables, p \in BOOLEAN : SaveTable(t, p)
    \/ WriteBlock \/ SaveDone

Spec == Init /\ [][Next]_vars

---------------------------------------------------------------------------
\* What the driver takes for a calibration table has been written as a whole, however
\* saves are cut off by a loss of power and wherever the two tables lie on each other
\* in the EEPROM (the table that the board came with counts for the factory's).  What
\* the checksum does not tell from that is the first blocks of one save and the last
\* of another whose bytes add up to the same.
Whole(t) == stored[t] \cup (IF t = "factory" THEN {Made} ELSE {})
Torn(t) == \E k, l \in 0 .. Blocks - 1 : cells[Cell(t, k)].img # cells[Cell(t, l)].img
WholeTables ==
    told.op \in {"select", "load"} /\ told.table \in Tables /\ told.ok =>
        \/ told.img \in Whole(told.table)
        \/ /\ Torn(told.table)
           /\ \E img \in Whole(told.table) : Weight(told.img) = Weight(img)

\* A save that is reported as done is in the EEPROM and in memory.  One that is not
\* has lost the table in memory to the baseline, or is there all the same: testTime
\* was not 1, and the program is told of a failure of the EEPROM.
SaveTold ==
    told.op = "save" =>
        LET there == told.img \in Verified(cells, told.table) IN
        IF told.ok THEN there /\ ram = told.img
        ELSE \/ there /\ ram = told.img /\ ram.time = 0
             \/ ~there /\ ram.ref = Base /\ ram.corr = "base"

\* The reference DACs have the values of the table in memory, and have them after
\* every load and every selection that was told to have worked.  What they may miss
\* is the baseline that takes the place of a table that did not verify.
DacsFollow ==
    Ready => \/ dac = ram.ref
             \/ ram.ref = Base /\ ~(told.op \in {"load", "select"} /\ told.ok)

\* A save of the factory table that worked has overwritten the serial number that it
\* wrote first, where the table reaches it: the next load has none.
SerialLost ==
    told.op = "save" /\ told.ok /\ told.table = "factory" =>
        \/ Serial(cells) = "new"
        \/ Serial(cells) = "unknown" /\ InfoAt \in {Cell("factory", k) : k \in 0 .. Blocks - 1}

\* What a program and the next load of the driver take from the EEPROM is what has
\* been saved there, up to the four exceptions stated above.
CalTruth == WholeTables /\ SaveTold /\ DacsFollow /\ SerialLost
=============================================================================
