------------------------------ MODULE CalFile ------------------------------
(***************************************************************************)
(* The calibration files of the library (apical.c): daqReadCalFile, its    *)
(* tables of constants by channel, daqCalSetup and daqCalConvert of one    *)
(* session.  A section of a file is for one card of 16 channels, for one   *)
(* channel, or for one channel of a DBK4; the lines that follow it are its *)
(* gains and offsets.  The 16 channels of a card share one allocation.     *)
(* The TempBook/66 branches are left out: no board of this driver is one.  *)
(***************************************************************************)
EXTENDS Integers, Sequences

CONSTANTS Cards,     \* CardsPerSystem
          PerCard,   \* channels of a card (16)
          Room,      \* [std, dbk4]: gains that a section has (9, 13)
          MaxLines   \* bound: lines read and calls made

VARIABLES
    chanCal,  \* session[handle].chanCal: by channel, an allocation or None
    heap,     \* the allocations, in their order: [kind, gains, live]
    file,     \* the read that runs: [open, bank, kind, gain]
    setup,    \* session[handle].calSetup: calType ("none" while nscan is 0) and,
              \* for the properties, the table it was made for
    wrong,    \* what memory has come to: "free" an allocation is freed a second
              \* time, "outside" a pointer is stored behind chanCal
    wrote,    \* history: the sections of the table, in their order
    mixed,    \* history: two sections of the table met in a channel
    answer,   \* history: the last conversion, [ok, uses, fresh]
    tables,   \* history: the reads of a file so far
    lines

vars == <<chanCal, heap, file, setup, wrong, wrote, mixed, answer, tables, lines>>

None == 0
Channels == 0 .. Cards * PerCard - 1
Sections ==
    {[bank |-> b, from |-> b * PerCard, upto |-> b * PerCard + PerCard - 1, kind |-> "std"]
        : b \in 0 .. Cards}
    \cup {[bank |-> c \div PerCard, from |-> c, upto |-> c, kind |-> k]
        : c \in 0 .. Cards * PerCard, k \in {"std", "dbk4"}}

Nothing == [ok |-> FALSE, uses |-> {}, fresh |-> TRUE]

Init ==
    /\ chanCal = [c \in Channels |-> None]
    /\ heap = <<>>
    /\ file = [open |-> FALSE, bank |-> Cards, kind |-> "unset", gain |-> 0]
    /\ setup = [type |-> "none", table |-> 0] /\ wrong = "no"
    /\ wrote = <<>> /\ mixed = FALSE /\ tables = 0
    /\ answer = Nothing
    /\ lines = 0

Live(o) == heap[o].live
Step == wrong = "no" /\ lines < MaxLines /\ lines' = lines + 1

---------------------------------------------------------------------------
\* freeDataStructMemory: every allocation once, as the other channels that have
\* the same pointer are cleared with the first.
Frees(old) == {c \in Channels : old[c] # None /\ \A d \in Channels : d < c => old[d] # old[c]}

Cleared(old) == [old EXCEPT !.type = "none"]
FreeAll ==
    LET freed == {chanCal[c] : c \in Frees(chanCal)}
        twice == \/ \E o \in freed : ~Live(o)
                 \/ \E c, d \in Frees(chanCal) : c # d /\ chanCal[c] = chanCal[d] IN
    /\ heap' = [o \in DOMAIN heap |-> [heap[o] EXCEPT !.live = @ /\ o \notin freed]]
    /\ wrong' = IF twice THEN "free" ELSE wrong
    /\ chanCal' = [c \in Channels |-> None]
    /\ setup' = Cleared(setup)
    /\ wrote' = <<>> /\ answer' = Nothing /\ tables' = tables + 1

\* MsgClose and MsgInit of the session.
Close ==
    /\ ~file.open /\ Step /\ FreeAll
    /\ UNCHANGED <<file, mixed>>

\* daqReadCalFile: a file that cannot be opened leaves the table as it is.
Read ==
    /\ ~file.open /\ Step /\ FreeAll
    /\ file' = [open |-> TRUE, bank |-> Cards, kind |-> "unset", gain |-> 0]
    /\ UNCHANGED mixed

\* A section: an allocation for its channels, each of which first frees what it had
\* (setCalStructure): from the second channel of a card on that may be the allocation
\* that the first one has just freed.
Meet(s, t) == s.from <= t.upto /\ t.from <= s.upto
Section(s) ==
    LET new == Len(heap) + 1
        inside == {c \in Channels : c \in s.from .. s.upto}
        olds == {chanCal[c] : c \in inside} \ {None}
        twice == \/ \E o \in olds : ~Live(o)
                 \/ \E c, d \in inside : c # d /\ chanCal[c] # None /\ chanCal[c] = chanCal[d] IN
    /\ file.open /\ Step
    /\ heap' = [o \in 1 .. new |->
                 IF o = new THEN [kind |-> s.kind, gains |-> <<>>, live |-> TRUE]
                 ELSE [heap[o] EXCEPT !.live = @ /\ o \notin olds]]
    /\ chanCal' = [c \in Channels |-> IF c \in inside THEN new ELSE chanCal[c]]
    /\ wrong' = CASE twice -> "free"
                  [] s.upto \notin Channels -> "outside"
                  [] OTHER -> wrong
    /\ file' = [file EXCEPT !.bank = s.bank, !.kind = s.kind, !.gain = 0]
    /\ wrote' = Append(wrote, [from |-> s.from, upto |-> s.upto, kind |-> s.kind, gains |-> <<>>])
    /\ mixed' = (mixed \/ \E i \in DOMAIN wrote : Meet(wrote[i], s))
    /\ UNCHANGED <<setup, answer, tables>>

\* A line of gain and offset: to the allocation of the last section, or the end of
\* the read.  Before the first section calType has no value, and bank is NOCHANS:
\* the line ends the read or is passed over.
GainBeyond(k) == file.gain <= Room[k]       \* mutant: one gain too many
GainFits(k) == file.gain < Room[k]
Gain(g, inRange) ==
    /\ file.open /\ Step
    /\ \/ /\ file.kind # "unset" /\ file.bank < Cards /\ GainFits(file.kind) /\ inRange
          /\ LET o == Len(heap) IN heap' = [heap EXCEPT ![o].gains = Append(@, g)]
          /\ wrote' = [wrote EXCEPT ![Len(wrote)].gains = Append(@, g)]
          /\ file' = [file EXCEPT !.gain = @ + 1]
       \/ /\ ~(file.kind # "unset" /\ file.bank < Cards /\ GainFits(file.kind) /\ inRange)
          /\ file' = [file EXCEPT !.open = FALSE]
          /\ UNCHANGED <<heap, wrote>>
       \/ file.kind = "unset" /\ UNCHANGED <<heap, wrote, file>>
    /\ UNCHANGED <<chanCal, setup, wrong, mixed, answer, tables>>

\* The end of the file, or a line that is neither: the table stays as far as it is.
EndRead ==
    /\ file.open /\ Step
    /\ file' = [file EXCEPT !.open = FALSE]
    /\ UNCHANGED <<chanCal, heap, setup, wrong, wrote, mixed, answer, tables>>

---------------------------------------------------------------------------
\* daqCalSetup: after every read of a file it is to be called again.
Setup(type) ==
    /\ ~file.open /\ Step
    /\ setup' = [type |-> type, table |-> tables]
    /\ UNCHANGED <<chanCal, heap, file, wrong, wrote, mixed, answer, tables>>

\* daqCalConvert over the channels from .. upto: calConvertDbk4 looks at the kind of
\* each constant it takes, calConvertStandard does not.
Accepts(type, o) == type = "std" \/ heap[o].kind = "dbk4"
Convert(from, upto) ==
    LET used == {chanCal[c] : c \in from .. upto} \ {None} IN
    /\ ~file.open /\ Step
    /\ answer' = [ok |-> setup.type # "none" /\ \A o \in used : Accepts(setup.type, o),
                  uses |-> IF setup.type = "none" THEN {} ELSE {Live(o) : o \in used},
                  fresh |-> setup.table = tables]
    /\ UNCHANGED <<chanCal, heap, file, setup, wrong, wrote, mixed, tables>>

Next ==
    \/ Close \/ Read \/ EndRead
    \/ \E s \in Sections : Section(s)
    \/ \E g \in {"g", "h"}, r \in BOOLEAN : Gain(g, r)
    \/ \E t \in {"std", "dbk4"} : Setup(t)
    \/ \E c, d \in Channels : c <= d /\ Convert(c, d)

Spec == Init /\ [][Next]_vars

---------------------------------------------------------------------------
\* A channel has the constants of the last section for it, whole and its own, or none
\* when the file has no section for it; unless a later section was for another
\* channel of the same card's section: that one has freed what the channel still has.
Covers(i) == wrote[i].from .. wrote[i].upto
LastFor(c) == {i \in DOMAIN wrote :
                  c \in Covers(i) /\ \A j \in DOMAIN wrote : j > i => c \notin Covers(j)}
Outlived(i) == \E j \in DOMAIN wrote : j > i /\ Meet(wrote[i], wrote[j])
ChannelsHaveTheirs ==
    wrong = "no" => \A c \in Channels :
        /\ (chanCal[c] = None <=> LastFor(c) = {})
        /\ \A i \in LastFor(c) :
              IF Outlived(i) THEN ~Live(chanCal[c])
              ELSE /\ Live(chanCal[c])
                   /\ heap[chanCal[c]].kind = wrote[i].kind
                   /\ heap[chanCal[c]].gains = wrote[i].gains
                   /\ Len(wrote[i].gains) <= Room[wrote[i].kind]

\* No allocation is freed twice or read when it is free, as long as no file has a
\* section for a card and another one for a channel of it, or two for the card: and
\* then the next one to free is the next section, the next file or the close.
FreedOnce ==
    /\ (wrong = "free" => mixed)
    /\ (~mixed => FALSE \notin answer.uses)

\* A conversion is done with a setup that was made for the table it uses: reading a
\* file takes the setup away.
SetupIsForTable == answer.ok => answer.fresh

\* Everything a conversion uses is what the last file has said of its channels.
ConstantsAreTheFiles == ChannelsHaveTheirs /\ FreedOnce /\ SetupIsForTable
=============================================================================
