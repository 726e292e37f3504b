------------------------------ MODULE PpsSecond ------------------------------
(***************************************************************************)
(* A second on its way: pps_gen gives the pulse, axis_lago_trigger keeps   *)
(* the rate and the number of the second for its metadata frame, and       *)
(* read_buffer moves the program's clock and changes its files.            *)
(*                                                                         *)
(* The frame is lost when the core is busy at the pulse, and begins anew   *)
(* when the core's slave keeps it waiting, so that the same second's word  *)
(* may come more than once (TriggerReadout has how); what is sent is       *)
(* decoded in order (RingReadout has how).                                 *)
(***************************************************************************)
EXTENDS PpsGen, FileClock, Sequences

CONSTANTS
    MaxPulses, MaxTicks, MaxWords, MaxAgain     \* bounds of the model

ASSUME Bounds == {MaxPulses, MaxTicks, MaxWords, MaxAgain} \subseteq Nat

VARIABLES
    aresetn,        \* bit 0 of the reset word: the acquisition runs
    gpsen,          \* its bit FGPS_EN: the board makes the pulse itself
    rate_cnt_reg,   \* triggers of a channel since the pulse
    words,          \* words 0x1B that are sent and not decoded
    pulses, lost,   \* pulses, and those whose frame was lost (history)
    again,          \* words sent of a second that had been sent (history)
    ticks,          \* triggers in this second (history)
    merged,         \* one of them came with the pulse before it (history)
    steady,         \* pulses since mode and resets were as now: 0, 1, 2 (history)
    start,          \* the clock's time at second 0 (history)
    previous        \* the word decoded last, or -1 (history)

bits == <<aresetn, gpsen>>
trigVars == <<rate_cnt_reg, ticks, merged>>
countVars == <<pulses, lost, again>>
vars == <<genVars, clockVars, bits, trigVars, words, countVars, steady, start, previous>>

TypeOK ==
    /\ GenTypeOK
    /\ aresetn \in BOOLEAN /\ gpsen \in BOOLEAN
    /\ rate_cnt_reg \in Nat /\ ticks \in Nat /\ merged \in BOOLEAN
    /\ words \in Seq(0 .. CounterMod - 1)
    /\ pulses \in Nat /\ lost \in Nat /\ again \in Nat
    /\ steady \in 0 .. 2

Init ==
    /\ GenInit
    /\ ClockInit
    /\ aresetn = FALSE
    /\ gpsen \in BOOLEAN
    /\ rate_cnt_reg = 0
    /\ words = <<>>
    /\ pulses = 0 /\ lost = 0 /\ again = 0
    /\ ticks = 0 /\ merged = FALSE
    /\ steady = 0
    /\ start = timegm(fileDate)
    /\ previous = -1

-----------------------------------------------------------------------------
\* Faulty: the pulse goes before the trigger, which is not counted.
CountRatePulseFirst(scaler_max_tick) ==
    rate_cnt_reg' = IF one_clk_pps THEN 0
                    ELSE IF scaler_max_tick THEN rate_cnt_reg + 1 ELSE rate_cnt_reg

\* rate_a_cnt_next: a trigger goes before the pulse, which then clears nothing.
CountRate(scaler_max_tick) ==
    rate_cnt_reg' = IF scaler_max_tick THEN rate_cnt_reg + 1
                    ELSE IF one_clk_pps THEN 0 ELSE rate_cnt_reg

\* array_pps at a pulse, and the frame that it makes: its word 0x1B gets through
\* so many times before the next pulse, once if the slave is always ready.
KeepSecond(copies) ==
    \/ /\ ~one_clk_pps
       /\ UNCHANGED <<words, countVars>>
    \/ /\ one_clk_pps
       /\ Len(words) + copies <= MaxWords
       /\ words' = words \o [k \in 1 .. copies |-> pps_counter_reg]
       /\ pulses' = pulses + 1
       /\ lost' = IF copies = 0 THEN lost + 1 ELSE lost
       /\ again' = IF copies > 1 THEN again + copies - 1 ELSE again

\* What a second has had: a trigger that comes with the pulse is the next one's.
TrackSecond(scaler_max_tick, resetn_i) ==
    /\ ticks' = (IF one_clk_pps THEN 0 ELSE ticks) + (IF scaler_max_tick THEN 1 ELSE 0)
    /\ merged' = IF one_clk_pps THEN scaler_max_tick ELSE merged
    /\ steady' = IF ~resetn_i THEN 0
                 ELSE IF one_clk_pps /\ steady < 2 THEN steady + 1 ELSE steady

\* A clock cycle of the acquisition, with the GPS' pulse, the other board's
\* reset, a trigger and what becomes of the frame.
Cycle(pps_ibuf, resetn_i, scaler_max_tick, copies) ==
    /\ aresetn
    /\ one_clk_pps => pulses < MaxPulses
    /\ scaler_max_tick => rate_cnt_reg < MaxTicks
    /\ GenCycle(pps_ibuf, gpsen, aresetn, resetn_i)
    /\ CountRate(scaler_max_tick)
    /\ KeepSecond(copies)
    /\ again' <= MaxAgain
    /\ TrackSecond(scaler_max_tick, resetn_i)
    /\ UNCHANGED <<clockVars, bits, start, previous>>

\* StartDaq of DaqSession: the reset goes, the program enters its loop.
Start ==
    /\ ~aresetn
    /\ aresetn' = TRUE
    /\ UNCHANGED <<genVars, clockVars, gpsen, trigVars, words, countVars, steady,
                   start, previous>>

\* Another run changes the mode.
wr_reg_value ==
    /\ gpsen' = ~gpsen
    /\ steady' = 0
    /\ UNCHANGED <<genVars, clockVars, aresetn, trigVars, words, countVars, start,
                   previous>>

\* read_buffer, the first time and for a word.
read_buffer ==
    \/ /\ aresetn
       /\ FirstTime(gpsen)
       /\ UNCHANGED <<genVars, bits, trigVars, words, countVars, steady, start, previous>>
    \/ /\ words # <<>>
       /\ OneSecond(Head(words))
       /\ words' = Tail(words)
       /\ previous' = Head(words)
       /\ start' = IF ~falseGPS /\ previous = -1
                    THEN timegm(fileDate') - Head(words) ELSE start
       /\ UNCHANGED <<genVars, bits, trigVars, countVars, steady>>

Next ==
    \/ \E pps_ibuf, resetn_i, scaler_max_tick \in BOOLEAN, copies \in 0 .. MaxWords :
           Cycle(pps_ibuf, resetn_i, scaler_max_tick, copies)
    \/ Start
    \/ wr_reg_value
    \/ read_buffer

Spec == Init /\ [][Next]_vars

-----------------------------------------------------------------------------
\* The first second that the board makes itself is at most two cycles too long,
\* and from the next one on the metadata have the frequency of the clock but one,
\* whatever a reset or a change of mode has left (pps_gen.vhd:92-154).
EvenSeconds ==
    gpsen /\ steady >= 1 =>
        /\ clk_cnt_pps < ClkFreq + (IF steady = 1 THEN 2 ELSE 0)
        /\ one_clk_pps /\ steady = 2 => clk_cnt_pps = ClkFreq - 1

\* The rate of a second is never too low, and it is right unless a trigger came
\* with the pulse before it (axis_lago_trigger_v1_3.vhd:223-231).
RateNotLow ==
    /\ rate_cnt_reg >= ticks
    /\ ~merged => rate_cnt_reg = ticks

\* Without a GPS the program's clock moves by one second for each word, over every
\* carry: it is behind the pulses by those whose frames were lost and the words that
\* are not decoded, ahead by the words of frames that were begun anew, and by
\* nothing else (lago.c:889-899, vhd:489-502).
ClockCountsFrames ==
    falseGPS => timegm(fileDate) = start + pulses - lost + again - Len(words)

\* Without a GPS data go to the file of the hour that the clock shows
\* (lago.c:889-899, 700-714).
FileOfHour ==
    falseGPS => file = NameOf(fileDate)

\* "# x h <HH:MM:SS> <DD/MM/YYYY> <S> : GPS time (every new second ...)"
\* (lago.c:730): with a GPS the clock advances with the seconds.
GpsTime ==
    ~falseGPS /\ previous >= 0 => timegm(fileDate) = start + previous
=============================================================================
