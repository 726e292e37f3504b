------------------------------- MODULE PpsGen -------------------------------
(***************************************************************************)
(* cores/pps_gen_v1_1: the source of the pulse per second.  It takes the   *)
(* pulse of the GPS receiver, or makes its own from the clock, finds its   *)
(* rising edge and counts clock cycles between pulses and pulses.          *)
(* A step is a cycle of the clock.                                         *)
(***************************************************************************)
EXTENDS Integers

CONSTANTS
    ClkFreq,    \* CLK_FREQ: cycles of a second
    ClkMod,     \* 2^27: clk_cnt_pps and one_sec_cnt wrap
    CounterMod  \* 2^24: pps_counter wraps

ASSUME Frequency == /\ ClkFreq \in Nat /\ ClkFreq >= 10
                    /\ ClkMod \in Nat /\ ClkMod > 2 * ClkFreq
ASSUME CounterRange == CounterMod \in Nat \ {0}

VARIABLES
    one_sec_cnt,    \* the cycle of the second that false_pps is made from
    false_pps,
    pps_st_reg,     \* the edge detector
    clk_cnt_pps,    \* cycles since the last pulse
    pps_counter_reg \* pulses

genVars == <<one_sec_cnt, false_pps, pps_st_reg, clk_cnt_pps, pps_counter_reg>>

GenTypeOK ==
    /\ one_sec_cnt \in 0 .. ClkFreq - 1
    /\ false_pps \in BOOLEAN
    /\ pps_st_reg \in {"ZERO", "EDGE", "ONE"}
    /\ clk_cnt_pps \in 0 .. ClkMod - 1
    /\ pps_counter_reg \in 0 .. CounterMod - 1

\* In reset; sessions before may have left false_pps high.
GenInit ==
    /\ one_sec_cnt = 0
    /\ false_pps \in BOOLEAN
    /\ pps_st_reg = "ZERO"
    /\ clk_cnt_pps = 0
    /\ pps_counter_reg = 0

\* The pulse, for the trigger and as an interrupt.
one_clk_pps == pps_st_reg = "EDGE"

\* The edge detector: three states, so that a level that stays is one pulse.
EdgeDetector(pps) ==
    pps_st_reg' = IF ~pps THEN "ZERO"
                  ELSE IF pps_st_reg = "ZERO" THEN "EDGE" ELSE "ONE"

\* Faulty: a second of the board's own has a cycle more.
CountLate ==
    /\ one_sec_cnt' = (one_sec_cnt + 1) % (ClkFreq + 1)
    /\ false_pps' = (one_sec_cnt < ClkFreq \div 5)
    /\ clk_cnt_pps' = IF one_clk_pps THEN 0 ELSE (clk_cnt_pps + 1) % ClkMod
    /\ pps_counter_reg' = IF one_clk_pps THEN (pps_counter_reg + 1) % CounterMod
                          ELSE pps_counter_reg

\* The counters, while neither reset is on.
Count ==
    /\ one_sec_cnt' = (one_sec_cnt + 1) % ClkFreq
    /\ false_pps' = (one_sec_cnt < ClkFreq \div 5)
    /\ clk_cnt_pps' = IF one_clk_pps THEN 0 ELSE (clk_cnt_pps + 1) % ClkMod
    /\ pps_counter_reg' = IF one_clk_pps THEN (pps_counter_reg + 1) % CounterMod
                          ELSE pps_counter_reg

\* Either reset stops false_pps where it is.
Reset ==
    /\ one_sec_cnt' = 0
    /\ clk_cnt_pps' = 0
    /\ pps_counter_reg' = 0
    /\ UNCHANGED false_pps

\* A rising edge of aclk.  aresetn is the program's reset, resetn_i comes from
\* the other board; it leaves the edge detector alone.
GenCycle(pps_ibuf, gpsen_i, aresetn, resetn_i) ==
    /\ IF aresetn THEN EdgeDetector(IF gpsen_i THEN false_pps ELSE pps_ibuf)
       ELSE pps_st_reg' = "ZERO"
    /\ IF aresetn /\ resetn_i THEN Count ELSE Reset
=============================================================================
