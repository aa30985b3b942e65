--------------------------- MODULE ExpansionCards ---------------------------
(***************************************************************************)
(* The expansion cards behind the analog inputs (src/apidbk.c): banks of   *)
(* channels, the options of the cards, which daqAdcSetScan sends before it *)
(* takes a list, and the acquisitions by which they are sent and a DBK7 is *)
(* calibrated (apiAdcSendSmartDbkData in src/apiadc.c, dbkReadInput).      *)
(* Refused calls that change nothing are steps that are not taken.         *)
(***************************************************************************)
EXTENDS Integers, SequencesExt

CONSTANTS MainUnit, System,  \* first channel of the cards; number of channels
          Banks, Options, Writes, Lists, \* arguments of the calls
          Highest,           \* of each option's values
          MaxCalls           \* bound

\* MainUnit and System are multiples of 8, the largest card's channels.

VARIABLES opt,    \* chanOptions
          card,   \* what the card of each channel was last sent
          cal,    \* what the converter of a DBK7's channel is set to
          asked,  \* the options last accepted
          owed,   \* channels with a baseline asked for and not sent
          lost,   \* channels of which something was dropped as it was refused
          busy,   \* "transfer": daqAdcTransferStart was called, "armed": daqAdcArm too
          told,   \* the last call, if it was accepted
          calls

vars == <<opt, card, cal, asked, owed, lost, busy, told, calls>>

Channels == MainUnit .. System - 1
Smart == {"dbk4", "dbk7", "dbk50"}
Dacs == {"dbk2", "dbk5"}
Fields == [dbk4 |-> {"gain", "freq", "base", "shared"}, dbk50 |-> {"gain"},
           dbk7 |-> {"slope", "debounce", "min", "max"}]

Junk == -1          \* what malloc() or a variable on the stack had in it
Null == <<>>
Undefined == [type |-> "none", changed |-> FALSE, slot |-> Null]
Unset == [f \in UNION {Fields[t] : t \in Smart} \cup {"volt"} |-> Junk]

---------------------------------------------------------------------------
ChannelsPerCard(t) == CASE t = "dbk4" -> 2 [] t \in {"dbk7"} \cup Dacs -> 4
                        [] t = "dbk50" -> 8 [] OTHER -> 1
StartChan(c, t) == c - (c % ChannelsPerCard(t))
Bank(c, t) == StartChan(c, t) .. StartChan(c, t) + ChannelsPerCard(t) - 1

Deallocated(o, bank) == [c \in Channels |-> IF c \in bank THEN Undefined ELSE o[c]]

\* One block of memory has the options of all channels of a bank.
Allocated(o, bank, t) ==
    [c \in Channels |->
       IF c \notin bank THEN o[c]
       ELSE [type |-> t, changed |-> FALSE,
             slot |-> IF t \in Smart THEN [f \in Fields[t] |-> Junk] ELSE Null]]

---------------------------------------------------------------------------
\* daqSetOption.  An option of the whole module (DcofModule) has a loop over its
\* channels, in which every turn sets the same one.  The excitation and clock of
\* a DBK4 are in the slot of its first channel; they, and the slope of a DBK7,
\* do not count as a change.
Slot(c, t, f) == IF t = "dbk4" /\ f = "shared" THEN StartChan(c, t) ELSE c
Stored(t, v) == IF t = "dbk50" THEN v % 4 ELSE v
Lead(c, t) == IF t = "dbk4" THEN StartChan(c, t) ELSE c
InRange(f, v) == f \notin {"shared", "slope"} => v \in (IF f = "max" THEN 1 ELSE 0) .. Highest[f]

Accepts(o, c, f, v) ==
    o[c].type \in Smart /\ f \in Fields[o[c].type] /\ InRange(f, Stored(o[c].type, v))

With(o, c, f, v) ==
    LET t == o[c].type
        s == [o EXCEPT ![Slot(c, t, f)].slot[f] = Stored(t, v)]
    IN  IF f \in {"shared", "slope"} THEN s ELSE [s EXCEPT ![Lead(c, t)].changed = TRUE]

\* The options and what has been asked for, after one more of them.
Opts(o, a, w) == [opt |-> o, asked |-> a, owed |-> w]
Accepted(s, c, f, v) ==
    IF ~Accepts(s.opt, c, f, v) THEN s
    ELSE LET t == s.opt[c].type
         IN  Opts(With(s.opt, c, f, v), [s.asked EXCEPT ![Slot(c, t, f)][f] = Stored(t, v)],
                  IF f # "base" THEN s.owed ELSE IF v = 1 THEN s.owed \cup {c} ELSE s.owed \ {c})

---------------------------------------------------------------------------
\* apiAdcSendSmartDbkData: an acquisition of a list that the card listens to.
\* Refused while one is armed or being transferred, or, from some channel on, by
\* the driver.
Refused(c, from) == busy # "no" \/ c >= from

\* A DBK7 wants a range of frequencies; one with junk in it may look like one.
BadRange(s, odd) == IF Junk \in {s.min, s.max} THEN odd ELSE s.min >= s.max

\* apiDbkSendChanOptions stops at the first error, of which that of a DBK50 is
\* none.  The baseline of a DBK4 is done once: told before it is known whether
\* it could be sent.
Changed(o) == {c \in Channels : o[c].changed}
Faulty(o, c, from, odd) ==
    \/ o[c].type = "dbk7" /\ (BadRange(o[c].slot, odd) \/ Refused(c, from))
    \/ o[c].type = "dbk4" /\ Refused(c, from)
StopsAt(o, from, odd) == Min({System} \cup {c \in Changed(o) : Faulty(o, c, from, odd)})

ClearedUpTo(c, end) == c <= end   \* mutant: the flag goes before the error is looked at
Cleared(c, end) == c < end

Visited(o, end) == {c \in Channels : LET l == Lead(c, o[c].type) IN o[l].changed /\ l <= end}
SentOf(o, from, end) ==
    {c \in Visited(o, end) : LET l == Lead(c, o[c].type) IN l # end /\ ~Refused(l, from)}

AfterSend(o, end) ==
    [c \in Channels |->
       LET t == o[c].type
           d == [o[c] EXCEPT !.changed = @ /\ ~Cleared(c, end)]
       IN  IF t = "dbk4" /\ c \in Visited(o, end)
           THEN [d EXCEPT !.slot.base = IF @ = 1 THEN 0 ELSE @]
           ELSE d]

OneShot(o, c) == o[c].type = "dbk4" /\ o[c].slot.base = 1

\* dbk50SendChanOptions does not look at the error.
Ignored == {"dbk50"}

\* What sending leaves, of the options `s`.
Sent(s, from, odd) ==
    LET end == StopsAt(s.opt, from, odd)
        sent == SentOf(s.opt, from, end)
    IN  [ok |-> end = System,
         opt |-> AfterSend(s.opt, end), asked |-> s.asked,
         card |-> [c \in Channels |-> IF c \in sent THEN s.opt[c].slot ELSE card[c]],
         owed |-> {c \in s.owed : ~(c \in sent /\ OneShot(s.opt, c))},
         lost |-> LET risky == {c \in Visited(s.opt, end) :
                                     s.opt[c].type \in Ignored \/ OneShot(s.opt, c)}
                  IN  (lost \ (risky \cap sent)) \cup (risky \ sent)]

Told(call, bank, quiet) == [call |-> call, bank |-> bank, quiet |-> quiet]
Call == calls < MaxCalls /\ calls' = calls + 1

\* daqAdcExpSetChanOption, daqAdcExpSetModuleOption.  The missing breaks of the
\* second lead to the same option, except for the gain of a DBK4.
SetOption(c, f, v, whole) ==
    /\ Call
    /\ Accepts(opt, c, f, v) /\ ~(whole /\ opt[c].type = "dbk4" /\ f = "gain")
    /\ LET s == Accepted(Opts(opt, asked, owed), c, f, v)
       IN  opt' = s.opt /\ asked' = s.asked /\ owed' = s.owed
    /\ told' = Told("option", {}, FALSE)
    /\ UNCHANGED <<card, cal, lost, busy>>

\* daqAdcSetScan: gains that differ from a card's are options first.
Gained(s, entry) ==
    LET c == entry.chan
    IN  IF c \in Channels /\ s.opt[c].type \in {"dbk4", "dbk50"} /\ s.opt[c].slot.gain # entry.gain
        THEN Accepted(s, c, "gain", entry.gain) ELSE s

SetScan(list, from, odd) ==
    /\ Call /\ busy # "armed"
    /\ LET r == Sent(FoldLeft(Gained, Opts(opt, asked, owed), list), from, odd)
       IN  /\ opt' = r.opt /\ asked' = r.asked /\ owed' = r.owed
           /\ card' = r.card /\ lost' = r.lost
           /\ told' = Told(IF r.ok THEN "scan" ELSE "error", {}, FALSE)
    /\ UNCHANGED <<cal, busy>>

---------------------------------------------------------------------------
\* What daqAdcExpSetBank sets at the end, as options of the module: those of its
\* first channel.
Default == [dbk4 |-> <<<<"gain", 0>>, <<"freq", 1>>, <<"base", 0>>, <<"shared", 0>>>>,
            dbk7 |-> <<<<"slope", 1>>, <<"debounce", 0>>, <<"min", 0>>, <<"max", Highest.max>>>>,
            dbk50 |-> <<<<"gain", 0>>>>, dbk2 |-> <<>>, dbk5 |-> <<>>]
Defaulted(s, c, t) == FoldLeft(LAMBDA r, d : Accepted(r, c, d[1], d[2]), s, Default[t])

\* A bank, new or again.
Renewed(bank, t, old) ==
    IF old THEN Opts(opt, asked, owed)
    ELSE Opts(Allocated(opt, bank, t),
              [c \in Channels |-> IF c \in bank THEN Unset ELSE asked[c]], owed \ bank)

\* apiDbkDacWt: one channel of a card, the others stay as they are.
Written(bank, c, v) ==
    [k \in Channels |-> IF k = c /\ busy = "no" THEN [volt |-> v]
                        ELSE IF k \in bank THEN Null ELSE card[k]]

SetBank(c, t) ==
    LET old == opt[c].type = t
        bank == Bank(c, t)
        d == Defaulted(Renewed(bank, t, old), StartChan(c, t), t)
    IN  /\ Call /\ t \notin {"none", "dbk7"}
        /\ old \/ \A k \in bank : opt[k].type = "none"
        /\ opt' = d.opt /\ asked' = d.asked /\ owed' = d.owed
        /\ lost' = IF old THEN lost ELSE lost \ bank
        /\ card' = LET taken == IF old THEN {} ELSE bank
                    IN  IF t \in Dacs THEN Written(taken, StartChan(c, t), Highest.volt \div 2)
                        ELSE Written(taken, System, 0)
        /\ told' = Told("bank", bank, FALSE)
        /\ UNCHANGED <<cal, busy>>

\* dbkReadInput runs an acquisition of its own, which sends what is left to send,
\* and puts the clock back; what it returns is the error of that, and what it
\* read is junk if there was another.
Reading(r) == IF r.ok THEN "measured" ELSE "junk"

\* dbk7AutoCal makes the settings of two readings; a transfer under way only
\* keeps them from the card.
Calibrated(bank, r) ==
    [c \in Channels |-> IF c \in bank /\ busy = "no" THEN Reading(r) ELSE cal[c]]

\* A DBK7 goes if its calibration is refused.
CalibrateBank(c, odd) ==
    LET old == opt[c].type = "dbk7"
        bank == Bank(c, "dbk7")
        s == Renewed(bank, "dbk7", old)
        r == Sent(s, System, odd)
        d == Defaulted(Opts(r.opt, r.asked, r.owed), StartChan(c, "dbk7"), "dbk7")
    IN  /\ Call
        /\ old \/ \A k \in bank : opt[k].type = "none"
        /\ IF busy = "armed"
           THEN /\ opt' = Deallocated(s.opt, bank) /\ told' = Told("error", {}, FALSE)
                /\ asked' = [k \in Channels |-> IF k \in bank THEN Unset ELSE asked[k]]
                /\ UNCHANGED <<card, cal, owed, lost>>
           ELSE /\ opt' = d.opt /\ asked' = d.asked /\ owed' = d.owed /\ lost' = r.lost
                /\ card' = [k \in Channels |-> IF k \in bank /\ ~old THEN Null ELSE r.card[k]]
                /\ cal' = Calibrated(bank, r)
                /\ told' = Told("bank", bank,
                                busy = "no" /\ \A k \in Changed(opt) :
                                  opt[k].type = "dbk7" => ~BadRange(opt[k].slot, TRUE))
        /\ UNCHANGED busy

\* DaetNotDefined.
RemoveBank(c) ==
    LET bank == Bank(c, opt[c].type)
    IN  /\ Call /\ opt[c].type # "none"
        /\ opt' = Deallocated(opt, bank)
        /\ asked' = [k \in Channels |-> IF k \in bank THEN Unset ELSE asked[k]]
        /\ owed' = owed \ bank /\ lost' = lost \ bank
        /\ told' = Told("bank", {}, FALSE)
        /\ UNCHANGED <<card, cal, busy>>

\* daqDacWt of a DBK2 or DBK5.
DacWt(c, v) ==
    /\ Call /\ busy = "no" /\ opt[c].type \in Dacs
    /\ card' = Written({}, c, v)
    /\ asked' = [asked EXCEPT ![c].volt = v]
    /\ told' = Told("write", {}, FALSE)
    /\ UNCHANGED <<opt, cal, owed, lost, busy>>

\* The program transfers, arms and stops.
Acquire ==
    /\ Call
    /\ \/ busy = "no" /\ busy' = "transfer"
       \/ busy = "transfer" /\ busy' \in {"armed", "no"}
       \/ busy = "armed" /\ busy' = "no"
    /\ told' = Told("acquire", {}, FALSE)
    /\ UNCHANGED <<opt, card, cal, asked, owed, lost>>

\* daqClose frees bank after bank; the cards know nothing of it.
Reopen ==
    /\ Call
    /\ opt' = Deallocated(opt, Channels)
    /\ asked' = [c \in Channels |-> Unset]
    /\ owed' = {} /\ lost' = {} /\ busy' = "no"
    /\ told' = Told("open", {}, FALSE)
    /\ UNCHANGED <<card, cal>>

---------------------------------------------------------------------------
\* The state after daqOpen.
Init ==
    /\ opt = [c \in Channels |-> Undefined]
    /\ card = [c \in Channels |-> Null]
    /\ cal = [c \in Channels |-> "none"]
    /\ asked = [c \in Channels |-> Unset]
    /\ owed = {} /\ lost = {} /\ busy = "no" /\ calls = 0
    /\ told = Told("open", {}, FALSE)

Froms == {System} \cup Changed(opt)
Next ==
    \/ \E b \in Banks : SetBank(b.chan, b.type) \/ RemoveBank(b.chan)
    \/ \E b \in Banks, odd \in BOOLEAN : b.type = "dbk7" /\ CalibrateBank(b.chan, odd)
    \/ \E o \in Options : SetOption(o.chan, o.field, o.value, o.whole)
    \/ \E l \in Lists, from \in Froms, odd \in BOOLEAN : SetScan(l, from, odd)
    \/ \E w \in Writes : DacWt(w.chan, w.value)
    \/ Acquire
    \/ Reopen

---------------------------------------------------------------------------
TypeOK ==
    /\ \A c \in Channels :
         /\ opt[c].type \in Smart \cup Dacs \cup {"none"}
         /\ opt[c].slot # Null => DOMAIN opt[c].slot = Fields[opt[c].type]
         /\ cal[c] \in {"none", "measured", "junk"}
    /\ owed \subseteq Channels /\ lost \subseteq Channels
    /\ busy \in {"no", "transfer", "armed"} /\ calls \in 0 .. MaxCalls

\* A channel that has a type has the whole card: neighbours of the same type,
\* each with its slot, so that no slot is used after its block was freed
\* (allocateBank, deallocateBank).
BanksWhole ==
    \A c \in Channels : LET t == opt[c].type IN
        /\ t # "none" => \A k \in Bank(c, t) : opt[k].type = t
        /\ (opt[c].slot = Null) = (t \notin Smart)
        /\ opt[c].changed => t \in Smart

\* When daqAdcSetScan has taken a list, every card has the options last accepted
\* for it, and has measured the baselines asked for, whatever calls and refusals
\* came before; except a gain of a DBK50 and a baseline that were dropped when
\* they were refused (apiDbkSendChanOptions, dbk4SendChanOptions).
SentWith == {"gain", "freq", "debounce", "min", "max"}
OptionsReachCards ==
    told.call = "scan" =>
        /\ \A c \in Channels, f \in SentWith :
             asked[c][f] # Junk /\ ~(opt[c].type \in Ignored /\ c \in lost) =>
               card[c] # Null /\ card[c][f] = asked[c][f]
        /\ owed \subseteq lost

\* A card may be sent what was in memory for options that nobody set, but never
\* for its first channel, which has the defaults (daqAdcExpSetBank).
JunkOnlyBehind ==
    \A c \in Channels : opt[c].type \in Smart /\ c = StartChan(c, opt[c].type) /\ card[c] # Null =>
        \A f \in Fields[opt[c].type] : card[c][f] # Junk

\* A DBK7 that is set with nothing under way, and no range left to send that it
\* would refuse, has its converters calibrated (dbk7AutoCal).
Calibrates == told.quiet => \A c \in told.bank : cal[c] = "measured"

CardsAsAsked == BanksWhole /\ OptionsReachCards /\ JunkOnlyBehind /\ Calibrates
=============================================================================
