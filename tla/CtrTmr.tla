------------------------------- MODULE CtrTmr -------------------------------
(***************************************************************************)
(* Counters and timers (db2kdriver/ctr.c): ctrSetOption and ctrRead, what  *)
(* the driver remembers of them and what it tells the hardware.  startCh   *)
(* and endCh are globals of the module, set by each call before it         *)
(* validates and uses them: calls for two boards interleave here at every  *)
(* access to them.                                                         *)
(***************************************************************************)
EXTENDS Integers

CONSTANTS Boards,
          Requests,   \* [lo, hi, opt, val, set]: channels, option, value, operation 1
          MaxCalls    \* bound: calls of ctrSetOption; none for a board
                      \* after one that raced

VARIABLES ch,       \* startCh, endCh
          call,     \* what each board's caller is doing
          counter,  \* pde->counter[0..4]
          timer,    \* pde->timer[0..2]
          hw,       \* what the hardware has been told
          stray,    \* timer[3] has been written
          wild,     \* an index that is in neither array has been used
          raced,    \* the globals changed while the board's call used them
          calls

vars == <<ch, call, counter, timer, hw, stray, wild, raced, calls>>

All == 4
Singles == 0 .. 3
AllTimers == 2

\* initializeCtrs and initializeTmrs; the hardware has been reset.
Off == [clear |-> "read", edge |-> "rising", enable |-> "off", cascade |-> "single"]
Told == [clear |-> "read", edge |-> "rising", enable |-> "off"]
Idle == [step |-> "idle"]

Init ==
    /\ ch = [start |-> 0, end |-> 0]
    /\ call = [b \in Boards |-> Idle]
    /\ counter = [b \in Boards |-> [i \in 0 .. All |-> Off]]
    /\ timer = [b \in Boards |-> [i \in 0 .. AllTimers |-> [divisor |-> "zero", enable |-> "off"]]]
    /\ hw = [b \in Boards |->
               [cascade |-> [i \in {0, 1} |-> "single"],
                counter |-> [i \in Singles |-> [own |-> TRUE, told |-> Told]],
                timer |-> [i \in {0, 1} |-> [divisor |-> "zero", enable |-> "off"]]]]
    /\ stray = [b \in Boards |-> FALSE]
    /\ wild = [b \in Boards |-> FALSE]
    /\ raced = [b \in Boards |-> FALSE]
    /\ calls = 0

\* The other boards whose call is between its own stores and last reads.
Races(b) == [c \in Boards |-> raced[c] \/ (c # b /\ call[c].step # "idle")]

---------------------------------------------------------------------------
\* configureCtr(n, 0) on the hardware `h` with the counters `c`: the cascades
\* of the pairs and one control word, which for n = 4 is for all counters.
Word(c, n) == [clear |-> c[n].clear, edge |-> c[n].edge, enable |-> c[n].enable]
Cascade(v) == IF v = "cascade" THEN v ELSE "single"

ConfigureCtr(h, c, n) ==
    [h EXCEPT
       !.cascade = [k \in {0, 1} |-> IF n = All \/ n % 2 = k THEN Cascade(c[k].cascade) ELSE @[k]],
       !.counter = [i \in Singles |->
                      IF n = All THEN [own |-> FALSE, told |-> Word(c, All)]
                      ELSE IF i = n THEN [own |-> TRUE, told |-> Word(c, n)] ELSE @[i]]]

\* One turn of the loop of an option of counters, with index i.
CascadedAlone(c, i, v) ==   \* mutant: the other counter of the pair is forgotten
    [c EXCEPT ![i].cascade = v]
Cascaded(c, i, v) == [c EXCEPT ![i].cascade = v, ![(i + 2) % 4].cascade = v]

Turn(b, r, i) ==
    LET c == counter[b]
        new == CASE r.opt = "cascade" /\ i \in Singles -> Cascaded(c, i, r.val)
                 [] r.opt = "mode"  -> [c EXCEPT ![i].clear = r.val]
                 [] r.opt = "edge"  -> [c EXCEPT ![i].edge = r.val]
                 [] r.opt = "ctl" /\ r.val # "clear" -> [c EXCEPT ![i].enable = r.val]
                 [] OTHER -> c
        told == IF r.opt # "cascade" THEN ConfigureCtr(hw[b], new, i)
                ELSE IF i = All THEN hw[b]
                ELSE ConfigureCtr(ConfigureCtr(hw[b], new, i % 2), new, (i % 2) + 2)
    IN /\ hw' = [hw EXCEPT ![b] = told]
       /\ counter' = [counter EXCEPT ![b] =
             IF r.opt = "ctl" /\ r.val # "clear" THEN [new EXCEPT ![All].enable = "off"] ELSE new]
       /\ UNCHANGED <<timer, stray>>

\* A turn of the loop of an option of timers.  timer[3].timerDivisor is where
\* counter[0].cascade is.
TimerTurn(b, r, i) ==
    /\ IF i = 3
       THEN /\ counter' = [counter EXCEPT ![b][0].cascade = r.val]
            /\ stray' = [stray EXCEPT ![b] = TRUE]
            /\ UNCHANGED <<timer, hw>>
       ELSE /\ timer' = [timer EXCEPT ![b][i] =
                           IF r.opt = "div" THEN [@ EXCEPT !.divisor = r.val]
                           ELSE [@ EXCEPT !.enable = r.val]]
            /\ hw' = IF i = AllTimers THEN hw
                     ELSE [hw EXCEPT ![b].timer[i] = timer'[b][i]]
            /\ UNCHANGED <<counter, stray>>

\* configureTmr(2) tells both timers.
BothTimers(h, v) == [h EXCEPT !.timer = [i \in {0, 1} |-> [h.timer[i] EXCEPT !.enable = v]]]

---------------------------------------------------------------------------
\* ctrSetOption: the stores of the channels.
SetChannels(b, r) ==
    /\ call[b] = Idle /\ calls < MaxCalls /\ ~raced[b]
    /\ ch' = [start |-> r.lo, end |-> r.hi]
    /\ call' = [call EXCEPT ![b] = [step |-> "validate", req |-> r]]
    /\ raced' = Races(b)
    /\ calls' = calls + 1
    /\ UNCHANGED <<counter, timer, hw, stray, wild>>

\* validateOptions.
ForTwoTimers(opt) == opt \in {"tmr", "alltmr"}
ForTimers(opt) == ForTwoTimers(opt) \/ opt = "div"
InRange(r) == /\ ch.start \in Singles /\ ch.end \in Singles /\ ch.start <= ch.end
              /\ ForTwoTimers(r.opt) => ch.start < 2 /\ ch.end < 2

Whole(r) == CASE r.opt = "allctl" -> All [] r.opt = "alltmr" -> AllTimers [] OTHER -> -1

Validate(b) ==
    /\ call[b].step = "validate"
    /\ LET r == call[b].req IN
       IF r.val = "bad" \/ ~InRange(r)
       THEN call' = [call EXCEPT ![b] = Idle] /\ UNCHANGED <<ch, counter, raced>>
       ELSE /\ call' = [call EXCEPT ![b].step = IF r.set THEN "set" ELSE "get"]
            /\ IF Whole(r) = -1 THEN UNCHANGED <<ch, raced>>
               ELSE ch' = [start |-> Whole(r), end |-> Whole(r)] /\ raced' = Races(b)
            /\ counter' = IF r.opt = "allctl"
                          THEN [counter EXCEPT ![b][All].clear = counter[b][3].clear] ELSE counter
    /\ UNCHANGED <<timer, hw, stray, wild, calls>>

Fits(r, i) == i <= (IF r.opt = "div" THEN 3 ELSE IF ForTimers(r.opt) THEN AllTimers ELSE All)
Wild(b) == wild' = [wild EXCEPT ![b] = TRUE]

\* Operation 0 returns the value of channel startCh.
Get(b) ==
    /\ call[b].step = "get"
    /\ call' = [call EXCEPT ![b] = Idle]
    /\ IF Fits(call[b].req, ch.start) THEN UNCHANGED wild ELSE Wild(b)
    /\ UNCHANGED <<ch, counter, timer, hw, stray, raced, calls>>

\* Operation 1.  The options for all counters or timers do not look at the
\* globals again; a clear of all tells the hardware the enable of counter[4].
SetAll(b) ==
    /\ call[b].step = "set" /\ Whole(call[b].req) # -1
    /\ LET r == call[b].req IN
       IF r.opt = "allctl"
       THEN LET c == IF r.val = "clear" THEN counter[b]
                     ELSE [i \in 0 .. All |-> [counter[b][i] EXCEPT !.enable = r.val]] IN
            /\ counter' = [counter EXCEPT ![b] = c]
            /\ hw' = [hw EXCEPT ![b] = ConfigureCtr(@, c, All)]
            /\ UNCHANGED timer
       ELSE /\ timer' = [timer EXCEPT ![b] =
                            [i \in 0 .. AllTimers |-> [@[i] EXCEPT !.enable = r.val]]]
            /\ hw' = [hw EXCEPT ![b] = BothTimers(@, r.val)]
            /\ UNCHANGED counter
    /\ call' = [call EXCEPT ![b] = Idle]
    /\ UNCHANGED <<ch, stray, wild, raced, calls>>

SetFrom(b) ==
    /\ call[b].step = "set" /\ Whole(call[b].req) = -1
    /\ call' = [call EXCEPT ![b] = [step |-> "loop", req |-> @.req, i |-> ch.start, end |-> ch.end]]
    /\ UNCHANGED <<ch, counter, timer, hw, stray, wild, raced, calls>>

\* The end of the loop: endCh may be kept in a register or read again.
EndLoop(b, r) ==
    /\ call' = [call EXCEPT ![b] = Idle]
    /\ timer' = IF r.opt = "tmr" THEN [timer EXCEPT ![b][AllTimers].enable = "off"] ELSE timer

Loop(b) ==
    /\ call[b].step = "loop"
    /\ LET r == call[b].req
           i == call[b].i IN
       \E end \in {call[b].end, ch.end} :
          IF i > end
          THEN EndLoop(b, r) /\ UNCHANGED <<counter, hw, stray, wild>>
          ELSE IF ~Fits(r, i)
          THEN /\ Wild(b) /\ call' = [call EXCEPT ![b] = Idle]
               /\ UNCHANGED <<counter, timer, hw, stray>>
          ELSE /\ IF ForTimers(r.opt) THEN TimerTurn(b, r, i) ELSE Turn(b, r, i)
               /\ call' = [call EXCEPT ![b].i = i + 1]
               /\ UNCHANGED wild
    /\ UNCHANGED <<ch, raced, calls>>

Next == \E b \in Boards :
           \/ \E r \in Requests : SetChannels(b, r)
           \/ Validate(b) \/ Get(b) \/ SetAll(b) \/ SetFrom(b) \/ Loop(b)

Spec == Init /\ [][Next]_vars

---------------------------------------------------------------------------
\* A board none of whose calls met one for another board has used no index
\* outside its arrays, except that the divisor of timer 3, which validateOptions
\* does not refuse (ctr.c:219), goes to counter[0].cascade; and between calls
\* the hardware does what the driver reports: each counter that was last told
\* something by itself, the cascades of both pairs, and the timers.  (A counter
\* that was last told something with all others has the edge of counter[4],
\* which nothing sets, and a clear of all stops it if one was set singly since.)
CountersAsReported ==
    \A b \in Boards :
       raced[b] \/
       (/\ ~wild[b]
        /\ call[b] = Idle =>
             /\ \A i \in Singles : hw[b].counter[i].own =>
                   hw[b].counter[i].told = Word(counter[b], i)
             /\ ~stray[b] => \A i \in Singles :
                   hw[b].cascade[i % 2] = counter[b][i].cascade
             /\ \A i \in {0, 1} : hw[b].timer[i] = timer[b][i])
=============================================================================
